---- MODULE Spec2Model ----
(***************************************************************************)
(* Verification model of the autocomplete pipeline of ai-cap:              *)
(*   - electron/autocomplete.ts (the file src/electron/datasetScanner.ts   *)
(*     from line 125 on): context extraction, sanitizer/validator,         *)
(*     createSignal, the streaming reader, suggestAutocomplete;            *)
(*   - electron/main.ts: the autocomplete:suggest IPC handler;             *)
(*   - src/App.tsx (the file src/vite.config.ts from line 28 on): the      *)
(*     suggestion orchestrator of the renderer.                            *)
(* Strings are TLA+ strings; a character is a string of length one.        *)
(***************************************************************************)
EXTENDS Integers, Sequences, FiniteSets, TLC

(***************************************************************************)
(* Characters and elementary string functions (JavaScript String methods). *)
(***************************************************************************)
Min(a, b) == IF a <= b THEN a ELSE b

Max(a, b) == IF a >= b THEN a ELSE b

Ch(s, i) == SubSeq(s, i, i)

LowerAlphabet == "abcdefghijklmnopqrstuvwxyz"

UpperAlphabet == "ABCDEFGHIJKLMNOPQRSTUVWXYZ"

UpperLetters == {Ch(UpperAlphabet, i) : i \in 1..26}

Letters == {Ch(LowerAlphabet, i) : i \in 1..26} \cup UpperLetters

\* /[A-Za-z'-]/
WordChars == Letters \cup {"'", "-"}

\* JavaScript \s restricted to the characters a TLA+ string can hold.
WhiteSpace == {" ", "\t", "\n", "\r", "\f"}

\* /[\u0000-\u001f]/ restricted to the characters a TLA+ string can hold.
ControlChars == {"\t", "\n", "\r", "\f"}

\* /["'`]/ without the backquote, which a string of this module cannot hold.
QuoteChars == {"\"", "'"}

\* U+212A KELVIN SIGN, a letter outside A-Z that String.prototype.toLowerCase
\* turns into k.  A string of this module holds ASCII only: the at sign,
\* which no text of the model uses otherwise, stands for it.
KelvinSign == "@"

ToLowerChar(c) ==
  IF c \in UpperLetters
    THEN Ch(LowerAlphabet, CHOOSE i \in 1..26 : Ch(UpperAlphabet, i) = c)
  ELSE IF c = KelvinSign THEN "k"
  ELSE c

RECURSIVE ToLower(_)
ToLower(s) ==
  IF s = "" THEN "" ELSE ToLowerChar(Ch(s, 1)) \o ToLower(SubSeq(s, 2, Len(s)))

\* String.prototype.slice(from, to) for 0 <= from, to (0-based, end exclusive).
Slice(s, from, to) == SubSeq(s, Min(from, Len(s)) + 1, Min(to, Len(s)))

StartsWith(s, p) == Len(p) <= Len(s) /\ SubSeq(s, 1, Len(p)) = p

\* The least element of a set of positions; 0 if it is empty.
LeastOrZero(positions) ==
  IF positions = {} THEN 0 ELSE CHOOSE j \in positions : \A k \in positions : j <= k

\* Is pattern p at 1-based position i of s; ci: compare case-insensitively.
MatchAt(s, p, i, ci) ==
  /\ i >= 1
  /\ i + Len(p) - 1 <= Len(s)
  /\ IF ci THEN ToLower(SubSeq(s, i, i + Len(p) - 1)) = ToLower(p)
           ELSE SubSeq(s, i, i + Len(p) - 1) = p

\* 1-based position of the first occurrence of p in s at or after i; 0 if none.
IndexOfFrom(s, p, i, ci) ==
  LeastOrZero({j \in i..(Len(s) - Len(p) + 1) : MatchAt(s, p, j, ci)})

\* s.replace(/p/g, rep) for a literal pattern p.
RECURSIVE ReplaceAll(_, _, _, _)
ReplaceFrom(s, p, rep, ci, j) ==
  IF j = 0 \/ p = "" THEN s
  ELSE SubSeq(s, 1, j - 1) \o rep \o ReplaceAll(SubSeq(s, j + Len(p), Len(s)), p, rep, ci)

ReplaceAll(s, p, rep, ci) == ReplaceFrom(s, p, rep, ci, IndexOfFrom(s, p, 1, ci))

\* Length of the maximal run of characters of class cls starting at position i.
RECURSIVE RunLength(_, _, _)
RunLength(s, i, cls) ==
  IF i <= Len(s) /\ Ch(s, i) \in cls THEN 1 + RunLength(s, i + 1, cls) ELSE 0

\* Length of the maximal run of characters of class cls ending at position i.
RECURSIVE RunLengthBack(_, _, _)
RunLengthBack(s, i, cls) ==
  IF i >= 1 /\ Ch(s, i) \in cls THEN 1 + RunLengthBack(s, i - 1, cls) ELSE 0

TrimStartOf(s, cls) == SubSeq(s, RunLength(s, 1, cls) + 1, Len(s))

TrimEndOf(s, cls) == SubSeq(s, 1, Len(s) - RunLengthBack(s, Len(s), cls))

\* String.prototype.trim
Trim(s) == TrimEndOf(TrimStartOf(s, WhiteSpace), WhiteSpace)

\* s.replace(/[cls]+/g, ' ')
RECURSIVE CollapseRuns(_, _)
CollapseRuns(s, cls) ==
  IF s = "" THEN ""
  ELSE IF Ch(s, 1) \in cls
    THEN " " \o CollapseRuns(SubSeq(s, RunLength(s, 1, cls) + 1, Len(s)), cls)
    ELSE Ch(s, 1) \o CollapseRuns(SubSeq(s, 2, Len(s)), cls)

\* text.match(/[A-Za-z][A-Za-z'-]*/g) ?? []
RECURSIVE WordTokens(_)
TokenThenRest(s, n) == <<SubSeq(s, 1, n)>> \o WordTokens(SubSeq(s, n + 1, Len(s)))

WordTokens(s) ==
  IF s = "" THEN <<>>
  ELSE IF Ch(s, 1) \in Letters THEN TokenThenRest(s, RunLength(s, 1, WordChars))
  ELSE WordTokens(SubSeq(s, 2, Len(s)))

(***************************************************************************)
(* Context Extractor (autocomplete.ts).                                    *)
(***************************************************************************)
MAX_LEFT_CONTEXT == 200

MAX_RIGHT_CONTEXT == 120

Last(seq) == IF Len(seq) = 0 THEN "" ELSE seq[Len(seq)]

extractPreviousWord(text) == ToLower(Last(WordTokens(text)))

\* Math.max(0, Math.min(text.length, Math.trunc(cursorIndex))) for an integer
\* cursorIndex.
SafeCursor(text, cursorIndex) == Max(0, Min(Len(text), cursorIndex))

\* The record extractWordContext returns, from the bounds it has computed.
WordContext(text, safeCursor, wordStart, wordEnd) ==
  [leftContext |-> Slice(text, Max(0, safeCursor - MAX_LEFT_CONTEXT), safeCursor),
   rightContext |-> Slice(text, safeCursor, Min(Len(text), safeCursor + MAX_RIGHT_CONTEXT)),
   partialWord |-> Slice(text, wordStart, safeCursor),
   rightWordRemainder |-> Slice(text, safeCursor, wordEnd),
   previousWord |-> extractPreviousWord(Slice(text, 0, wordStart))]

\* The two scans of extractWordContext from the safe cursor.
WordBounds(text, safeCursor) ==
  WordContext(text, safeCursor,
              safeCursor - RunLengthBack(text, safeCursor, WordChars),
              safeCursor + RunLength(text, safeCursor + 1, WordChars))

extractWordContext(text, cursorIndex) == WordBounds(text, SafeCursor(text, cursorIndex))

(***************************************************************************)
(* Sanitizer/Validator (autocomplete.ts).                                  *)
(***************************************************************************)
\* raw.replace(/\\r\\n|\\n|\\t/g, ' '): the two-character escapes, spelled out.
RECURSIVE NormalizeEscapes(_)
NormalizeEscapes(s) ==
  IF s = "" THEN ""
  ELSE IF MatchAt(s, "\\r\\n", 1, FALSE)
    THEN " " \o NormalizeEscapes(SubSeq(s, 5, Len(s)))
  ELSE IF MatchAt(s, "\\n", 1, FALSE) \/ MatchAt(s, "\\t", 1, FALSE)
    THEN " " \o NormalizeEscapes(SubSeq(s, 3, Len(s)))
  ELSE Ch(s, 1) \o NormalizeEscapes(SubSeq(s, 2, Len(s)))

\* s.replace(/<think>[\s\S]*?<\/think>/gi, ' ')
RECURSIVE RemoveThinkBlocks(_)
RemoveBlock(s, open, close) ==
  IF open = 0 \/ close = 0 THEN s
  ELSE SubSeq(s, 1, open - 1) \o " " \o RemoveThinkBlocks(SubSeq(s, close + 8, Len(s)))

RemoveBlockFrom(s, open) ==
  RemoveBlock(s, open, IF open = 0 THEN 0 ELSE IndexOfFrom(s, "</think>", open + 7, TRUE))

RemoveThinkBlocks(s) == RemoveBlockFrom(s, IndexOfFrom(s, "<think>", 1, TRUE))

\* s.split('</think>').at(-1)
RECURSIVE AfterLast(_, _)
AfterFirst(s, p, j) == IF j = 0 THEN s ELSE AfterLast(SubSeq(s, j + Len(p), Len(s)), p)

AfterLast(s, p) == AfterFirst(s, p, IndexOfFrom(s, p, 1, FALSE))

\* s.split(/\r?\n/, 1)[0] ?? ''
LineUpTo(s, nl) ==
  IF nl = 0 THEN s
  ELSE IF nl > 1 /\ Ch(s, nl - 1) = "\r" THEN SubSeq(s, 1, nl - 2)
  ELSE SubSeq(s, 1, nl - 1)

FirstLine(s) == LineUpTo(s, IndexOfFrom(s, "\n", 1, FALSE))

\* withoutThinkBlocks.includes('</think>') ? ...split('</think>').at(-1) : ...replace(/<think>/gi, ' ')
AfterThink(withoutThinkBlocks) ==
  IF IndexOfFrom(withoutThinkBlocks, "</think>", 1, FALSE) # 0
    THEN AfterLast(withoutThinkBlocks, "</think>")
    ELSE ReplaceAll(withoutThinkBlocks, "<think>", " ", TRUE)

sanitizeBase(raw) ==
  Trim(CollapseRuns(
         CollapseRuns(FirstLine(AfterThink(RemoveThinkBlocks(NormalizeEscapes(raw)))),
                      ControlChars),
         WhiteSpace))

sanitizeCompletion(raw) ==
  Trim(TrimEndOf(TrimStartOf(sanitizeBase(raw), QuoteChars), QuoteChars))

\* A faulty choice of the token that takes an echoed partial too.
RECURSIVE FirstMatchingTokenAnyLength(_, _)
FirstMatchingTokenAnyLength(tokens, partialWord) ==
  IF tokens = <<>> THEN ""
  ELSE IF StartsWith(ToLower(Head(tokens)), ToLower(partialWord))
    THEN Head(tokens)
    ELSE FirstMatchingTokenAnyLength(Tail(tokens), partialWord)

\* The first token that starts with the partial (case-insensitively) and is
\* longer than it; "" if none.
RECURSIVE FirstMatchingToken(_, _)
FirstMatchingToken(tokens, partialWord) ==
  IF tokens = <<>> THEN ""
  ELSE IF StartsWith(ToLower(Head(tokens)), ToLower(partialWord))
          /\ Len(Head(tokens)) > Len(partialWord)
    THEN Head(tokens)
    ELSE FirstMatchingToken(Tail(tokens), partialWord)

SuffixOf(token, partialWord) ==
  IF token = "" THEN "" ELSE Slice(token, Len(partialWord), Len(token))

sanitizeWordCompletion(raw, partialWord) ==
  IF partialWord = "" THEN ""
  ELSE SuffixOf(FirstMatchingToken(WordTokens(sanitizeCompletion(raw)), partialWord),
                partialWord)

PHRASE_CAP == 64

\* Faulty checks of word mode, without the one on the previous word.
ValidateWordAnyPrevious(completion, context) ==
  IF completion = "" THEN ""
  ELSE IF context.rightWordRemainder # ""
          /\ ToLower(completion) = ToLower(context.rightWordRemainder) THEN ""
  ELSE IF \E i \in 1..Len(completion) : Ch(completion, i) \notin WordChars THEN ""
  ELSE completion

\* The checks of word mode on the sanitized completion.
ValidateWord(completion, context) ==
  IF completion = "" THEN ""
  ELSE IF context.rightWordRemainder # ""
          /\ ToLower(completion) = ToLower(context.rightWordRemainder) THEN ""
  ELSE IF \E i \in 1..Len(completion) : Ch(completion, i) \notin WordChars THEN ""
  ELSE IF context.previousWord # ""
          /\ ToLower(context.partialWord \o completion) = context.previousWord THEN ""
  ELSE completion

\* The checks of phrase mode on the sanitized and capped completion.
ValidatePhrase(phrase) == IF phrase = "" \/ Len(phrase) > PHRASE_CAP THEN "" ELSE phrase

sanitizeAndValidateCompletion(raw, context, mode) ==
  IF mode = "word"
    THEN ValidateWord(sanitizeWordCompletion(raw, context.partialWord), context)
    ELSE ValidatePhrase(Slice(sanitizeCompletion(raw), 0, PHRASE_CAP))

(***************************************************************************)
(* JSON.parse, for the texts the streamed content can hold in this model:  *)
(* strings and objects of at most one member, over an alphabet without     *)
(* backslash, digits, commas and brackets and without the literals true,   *)
(* false and null.                                                         *)
(***************************************************************************)
SkipWs(s, i) == i + RunLength(s, i, {" ", "\t", "\n", "\r"})

JsonFail == [ok |-> FALSE, next |-> 0, kind |-> "", str |-> "", key |-> "",
             hasMember |-> FALSE, valKind |-> "", valStr |-> ""]

RECURSIVE JsonValue(_, _)
\* A string that opens at position j and closes at position close.
JsonString(s, j, close) ==
  IF close = 0 THEN JsonFail
  ELSE IF \E k \in (j + 1)..(close - 1) : Ch(s, k) \in ControlChars \cup {"\\"} THEN JsonFail
  ELSE [JsonFail EXCEPT !.ok = TRUE, !.next = close + 1, !.kind = "string",
                         !.str = SubSeq(s, j + 1, close - 1)]

JsonMemberEnd(s, key, val, close) ==
  IF ~val.ok \/ close > Len(s) THEN JsonFail
  ELSE IF Ch(s, close) # "}" THEN JsonFail
  ELSE [JsonFail EXCEPT !.ok = TRUE, !.next = close + 1, !.kind = "object",
                         !.hasMember = TRUE, !.key = key.str, !.valKind = val.kind,
                         !.valStr = val.str]

JsonMemberValue(s, key, val) == JsonMemberEnd(s, key, val, SkipWs(s, val.next))

JsonMemberColon(s, key, colon) ==
  IF ~key.ok \/ key.kind # "string" \/ colon > Len(s) THEN JsonFail
  ELSE IF Ch(s, colon) # ":" THEN JsonFail
  ELSE JsonMemberValue(s, key, JsonValue(s, colon + 1))

JsonMember(s, key) == JsonMemberColon(s, key, SkipWs(s, key.next))

\* An object whose first token after the brace is at position k.
JsonObject(s, k) ==
  IF k > Len(s) THEN JsonFail
  ELSE IF Ch(s, k) = "}" THEN [JsonFail EXCEPT !.ok = TRUE, !.next = k + 1, !.kind = "object"]
  ELSE JsonMember(s, JsonValue(s, k))

JsonAt(s, j) ==
  IF j > Len(s) THEN JsonFail
  ELSE IF Ch(s, j) = "\"" THEN JsonString(s, j, IndexOfFrom(s, "\"", j + 1, FALSE))
  ELSE IF Ch(s, j) = "{" THEN JsonObject(s, SkipWs(s, j + 1))
  ELSE JsonFail

JsonValue(s, i) == JsonAt(s, SkipWs(s, i))

JsonWhole(text, v) == IF v.ok /\ SkipWs(text, v.next) > Len(text) THEN v ELSE JsonFail

\* JSON.parse(text): ok is FALSE when it throws.
JsonParse(text) == JsonWhole(text, JsonValue(text, 1))

\* What parseChatCompletion hands to the validator.
CompletionText(trimmed, parsed) ==
  IF ~parsed.ok THEN trimmed
  ELSE IF parsed.kind = "object" /\ parsed.hasMember /\ parsed.key = "completion"
    \* a completion that is no string makes the sanitizer throw inside the
    \* try block: the catch branch validates the text
    THEN IF parsed.valKind = "string" THEN parsed.valStr ELSE trimmed
  \* parsed.completion is undefined
  ELSE ""

ParseTrimmed(trimmed, context, mode) ==
  sanitizeAndValidateCompletion(CompletionText(trimmed, JsonParse(trimmed)), context, mode)

parseChatCompletion(content, context, mode) == ParseTrimmed(Trim(content), context, mode)

\* content.match(/"completion"\s*:\s*"([^"]*)/): the capture group of the
\* leftmost match, with matched = FALSE when there is none.
CompletionKey == "\"completion\""

ValueStartQuote(content, colon, quote) ==
  IF colon <= Len(content) /\ quote <= Len(content)
     /\ MatchAt(content, ":", colon, FALSE) /\ MatchAt(content, "\"", quote, FALSE)
    THEN quote + 1 ELSE 0

ValueStartColon(content, colon) ==
  ValueStartQuote(content, colon, colon + 1 + RunLength(content, colon + 1, WhiteSpace))

\* Where the capture group starts for a match of the key at position j; 0 if
\* the key at j does not start a match.
ValueStart(content, j) ==
  ValueStartColon(content,
    j + Len(CompletionKey) + RunLength(content, j + Len(CompletionKey), WhiteSpace))

\* ([^"]*)
MatchGroup(content, from) ==
  SubSeq(content, from,
         from + RunLength(content, from, {Ch(content, k) : k \in 1..Len(content)} \ {"\""}) - 1)

MatchFrom(content, first) ==
  IF first = 0 THEN [matched |-> FALSE, group |-> ""]
  ELSE [matched |-> TRUE, group |-> MatchGroup(content, ValueStart(content, first))]

StreamedMatch(content) ==
  MatchFrom(content,
    LeastOrZero({j \in 1..Len(content) :
                   MatchAt(content, CompletionKey, j, FALSE) /\ ValueStart(content, j) # 0}))

FromFragment(match, context, mode) ==
  IF ~match.matched THEN ""
  ELSE sanitizeAndValidateCompletion(ReplaceAll(match.group, "\\\"", "\"", FALSE), context, mode)

OrFromFragment(parsedFromFullBody, content, context, mode) ==
  IF parsedFromFullBody # "" THEN parsedFromFullBody
  ELSE FromFragment(StreamedMatch(content), context, mode)

parseStreamedJsonCompletion(content, context, mode) ==
  OrFromFragment(parseChatCompletion(content, context, mode), content, context, mode)

(***************************************************************************)
(* Local lexicon (localAutocomplete.ts).                                   *)
(***************************************************************************)
\* text.toLowerCase().match(/[a-z][a-z'-]*/g) ?? []
tokenize(text) == WordTokens(ToLower(text))

\* The record extractPartial returns, from the bounds it has computed.
PartialOf(text, safeCursor, start, end) ==
  [partialWord |-> Slice(text, start, safeCursor),
   previousWord |-> Last(tokenize(Slice(text, 0, start))),
   rightWordRemainder |-> Slice(text, safeCursor, end)]

PartialBounds(text, safeCursor) ==
  PartialOf(text, safeCursor,
            safeCursor - RunLengthBack(text, safeCursor, WordChars),
            safeCursor + RunLength(text, safeCursor + 1, WordChars))

extractPartial(text, cursorIndex) == PartialBounds(text, SafeCursor(text, cursorIndex))

RECURSIVE CountWord(_, _)
CountWord(words, word) ==
  IF words = <<>> THEN 0
  ELSE (IF Head(words) = word THEN 1 ELSE 0) + CountWord(Tail(words), word)

RECURSIVE CountPair(_, _, _)
CountPair(words, previous, word) ==
  IF Len(words) < 2 THEN 0
  ELSE (IF words[1] = previous /\ words[2] = word THEN 1 ELSE 0)
       + CountPair(Tail(words), previous, word)

\* buildWordStats(texts).frequency.get(word) ?? 0
RECURSIVE Frequency(_, _)
Frequency(texts, word) ==
  IF texts = <<>> THEN 0
  ELSE CountWord(tokenize(Head(texts)), word) + Frequency(Tail(texts), word)

\* buildWordStats(texts).bigrams.get(previous)?.get(word) ?? 0
RECURSIVE Transition(_, _, _)
Transition(texts, previous, word) ==
  IF texts = <<>> THEN 0
  ELSE CountPair(tokenize(Head(texts)), previous, word) + Transition(Tail(texts), previous, word)

\* buildWordStats(texts).frequency.keys()
Vocabulary(texts) ==
  UNION {{tokenize(texts[i])[k] : k \in 1..Len(tokenize(texts[i]))} : i \in 1..Len(texts)}

\* The place of a character in the collation of localeCompare: the hyphen,
\* then the apostrophe, then the letters.
LetterRank(c) ==
  IF c = "-" THEN -1
  ELSE IF c = "'" THEN 0
  ELSE CHOOSE i \in 1..26 : Ch(LowerAlphabet, i) = c

\* a.localeCompare(b) < 0, for words of lower-case letters, apostrophes and hyphens
RECURSIVE LocaleLess(_, _)
LocaleLess(a, b) ==
  IF b = "" THEN FALSE
  ELSE IF a = "" THEN TRUE
  ELSE IF Ch(a, 1) # Ch(b, 1) THEN LetterRank(Ch(a, 1)) < LetterRank(Ch(b, 1))
  ELSE LocaleLess(SubSeq(a, 2, Len(a)), SubSeq(b, 2, Len(b)))

\* A score that leaves the bigram out.
ScoreByFrequency(texts, previous, word) == Frequency(texts, word)

\* transition * 5 + freq - repeatPenalty; the previous word, the only one
\* with a penalty, has been filtered out
Score(texts, previous, word) == Transition(texts, previous, word) * 5 + Frequency(texts, word)

\* The filters without the one on the previous word.
CandidatesWithPrevious(texts, partial, normalizedPartial) ==
  {word \in Vocabulary(texts) :
     /\ StartsWith(word, normalizedPartial) /\ word # normalizedPartial
     /\ \/ partial.rightWordRemainder = ""
        \/ ToLower(Slice(word, Len(normalizedPartial), Len(word)))
             # ToLower(partial.rightWordRemainder)}

\* the three filters of suggestLocalCompletion
Candidates(texts, partial, normalizedPartial) ==
  {word \in Vocabulary(texts) :
     /\ StartsWith(word, normalizedPartial) /\ word # normalizedPartial
     /\ word # ToLower(partial.previousWord)
     /\ \/ partial.rightWordRemainder = ""
        \/ ToLower(Slice(word, Len(normalizedPartial), Len(word)))
             # ToLower(partial.rightWordRemainder)}

\* ranked[0]: the highest score, ties broken by localeCompare
Best(texts, previous, candidates) ==
  CHOOSE word \in candidates :
    \A other \in candidates \ {word} :
       \/ Score(texts, previous, word) > Score(texts, previous, other)
       \/ /\ Score(texts, previous, word) = Score(texts, previous, other)
          /\ LocaleLess(word, other)

RestOfBest(texts, previous, candidates, normalizedPartial) ==
  IF candidates = {} THEN ""
  ELSE Slice(Best(texts, previous, candidates), Len(normalizedPartial),
             Len(Best(texts, previous, candidates)))

CompleteLocally(texts, partial, normalizedPartial) ==
  RestOfBest(texts, ToLower(partial.previousWord),
             Candidates(texts, partial, normalizedPartial), normalizedPartial)

CompleteAnyPartial(texts, partial) ==
  CompleteLocally(texts, partial, ToLower(partial.partialWord))

CompletePartial(texts, partial) ==
  IF partial.partialWord = "" THEN ""
  ELSE CompleteLocally(texts, partial, ToLower(partial.partialWord))

suggestLocalCompletion(texts, text, cursorIndex, mode) ==
  IF mode # "word" THEN "" ELSE CompletePartial(texts, extractPartial(text, cursorIndex))

\* A faulty insertion that leaves the cursor before the inserted text.
InsertAtKeepCursor(text, safeCursor, completion) ==
  [nextText |-> Slice(text, 0, safeCursor) \o completion \o Slice(text, safeCursor, Len(text)),
   nextCursorIndex |-> safeCursor]

\* A faulty insertion that writes the completion over the text after the cursor.
InsertAtOverwriting(text, safeCursor, completion) ==
  [nextText |-> Slice(text, 0, safeCursor) \o completion
                  \o Slice(text, safeCursor + Len(completion), Len(text)),
   nextCursorIndex |-> safeCursor + Len(completion)]

\* insertCompletionAtCursor (lib/autocomplete.ts)
InsertAt(text, safeCursor, completion) ==
  [nextText |-> Slice(text, 0, safeCursor) \o completion \o Slice(text, safeCursor, Len(text)),
   nextCursorIndex |-> safeCursor + Len(completion)]

insertCompletionAtCursor(text, cursorIndex, completion) ==
  InsertAt(text, SafeCursor(text, cursorIndex), completion)

(***************************************************************************)
(* State.                                                                  *)
(* Main process: the runtime settings and statistics of autocomplete.ts,   *)
(* one record per call of suggestAutocomplete, and the controller registry *)
(* of main.ts.  Time is kept per request, as the ms elapsed since its      *)
(* startedAt = performance.now(): the code reads the clock only for the    *)
(* latency of a request, and its timers run from the start of the request. *)
(***************************************************************************)
VARIABLES
  runtimeSettings,          \* autocomplete.ts: runtimeSettings
  runtimeStats,             \* autocomplete.ts: runtimeStats, and the history field
                            \* recorded: the number of samples ever pushed
  requests,                 \* request id -> state of that call of suggestAutocomplete
  autocompleteControllers,  \* main.ts: sender id -> request id of its controller
  items,                    \* App.tsx: items and itemsRef.current, index -> item
  suggestion,               \* App.tsx: the suggestion state (the ghost text)
  autocompleteTimerRef,     \* App.tsx: the debounce timer and what its callback captured
  autocompleteRequestVersionRef,  \* App.tsx: autocompleteRequestVersionRef.current
  autocompleteSettings,     \* App.tsx: the settings state of the renderer
  autocompleteHealth,       \* App.tsx: the health state of the renderer
  pendingSuggests,          \* calls of requestOllamaSuggestion awaiting autocompleteSuggest
  timers,                   \* debounce.ts: timers of the saver, item index (its txtPath) -> timer
  lastEvent,                \* history: the handler that ran last, and its item index
  call                      \* one call of a pure function: its arguments and its result

mainVars == <<runtimeSettings, runtimeStats, requests, autocompleteControllers>>

uiVars == <<items, suggestion, autocompleteTimerRef, autocompleteRequestVersionRef,
            autocompleteSettings, autocompleteHealth, pendingSuggests, timers, lastEvent>>

vars == <<mainVars, uiVars, call>>

(***************************************************************************)
(* Bounds of the model.                                                    *)
(***************************************************************************)
\* calls of suggestAutocomplete in one behaviour
MaxRequests == 2

\* renderer processes (event.sender.id)
NumSenders == 2

\* reads of the response stream per request before the stream ends
MaxReads == 2

\* the clock advances in steps of this many ms
TimeStep == 5000

\* complete lines that one read of the stream delivers, in the stream specification
MaxLinesPerRead == 2

Senders == 1..NumSenders

RequestIds == 1..MaxRequests

OVERALL_TIMEOUT_FLOOR_MS == 6000

OVERALL_TIMEOUT_EXTRA_MS == 5000

LATENCY_WINDOW_SIZE == 60

\* runtimeStats.lastLatencyMs === undefined
NoLatency == -1

\* autocompleteControllers.get(senderId) === undefined
NoController == 0

\* Settings after normalisation: firstTokenTimeoutMs lies in [200, 20000].
SettingsChoices ==
  [enabled : BOOLEAN, mode : {"word", "phrase"}, firstTokenTimeoutMs : {5000}]

\* What the renderer asks for: the text and the cursor index.
RequestChoices == {[text |-> "too f", cursorIndex |-> 5], [text |-> "too ", cursorIndex |-> 4]}

(***************************************************************************)
(* One line of the response stream as consumeLine sees it: blank, not      *)
(* parseable as JSON, or a chunk whose message.content is piece.           *)
(***************************************************************************)
BlankLine == [kind |-> "blank", piece |-> ""]

MalformedLine == [kind |-> "malformed", piece |-> ""]

ChunkLine(piece) == [kind |-> "chunk", piece |-> piece]

\* Pieces the inference service streams in the main specification.
MainPieces == {"", "far"}

\* Pieces the inference service streams in the stream specification.
StreamPieces == {"", "f", "ar", "{\"completion\":\"far\"}"}

StreamLines == {BlankLine, MalformedLine} \cup {ChunkLine(p) : p \in StreamPieces}

\* The complete lines of one read; blank lines, which consumeLine skips, are
\* left out.
StreamReads ==
  UNION {[1..n -> StreamLines \ {BlankLine}] : n \in 0..MaxLinesPerRead}

(***************************************************************************)
(* Requests.                                                               *)
(***************************************************************************)
NoResponse == [present |-> FALSE, completion |-> "", latencyMs |-> 0,
               hasTimedOut |-> FALSE, timedOut |-> FALSE]

IdleRequest ==
  [pc |-> "idle", sender |-> 0, context |-> extractWordContext("", 0), mode |-> "word",
   elapsedMs |-> 0,               \* performance.now() - startedAt
   aborted |-> FALSE,             \* createSignal: controller.signal.aborted
   firstTokenSeen |-> FALSE, firstTokenTimedOut |-> FALSE,
   overallTimeout |-> FALSE,      \* is the overall timer armed
   firstTokenTimeout |-> FALSE,   \* is the first-token timer armed
   overallTimeoutMs |-> 0, firstTokenTimeoutMs |-> 0,
   buffer |-> BlankLine, content |-> "", completion |-> "", reads |-> 0,
   response |-> NoResponse,
   offered |-> <<>>,              \* history: the non-empty pieces of the chunk lines
                                  \* the stream has delivered
   cause |-> "none"]              \* history: what ended the request

\* A request is in flight from the return of fetch(...) to its own return.
Awaiting == {"fetch", "json", "read"}

InFlight(r) == requests[r].pc \in Awaiting \cup {"cancel", "thrown"}

\* A rejected await resumes the function in a microtask, which runs before any
\* timer, I/O callback or IPC message is handled.
MicrotaskPending == \E r \in RequestIds : requests[r].pc = "thrown"

(***************************************************************************)
(* Telemetry (autocomplete.ts).                                            *)
(***************************************************************************)
\* A push that never drops a sample.
pushLatencyUnbounded(stats, latencyMs) ==
  [stats EXCEPT !.lastLatencyMs = latencyMs, !.recorded = @ + 1,
                !.latencies = Append(@, latencyMs)]

pushLatency(stats, latencyMs) ==
  LET pushed == Append(stats.latencies, latencyMs)
      over == Len(pushed) - LATENCY_WINDOW_SIZE
  IN [stats EXCEPT !.lastLatencyMs = latencyMs, !.recorded = @ + 1,
                   !.latencies = IF over > 0 THEN SubSeq(pushed, over + 1, Len(pushed))
                                            ELSE pushed]

(***************************************************************************)
(* createSignal (autocomplete.ts): the two timers and the merged abort.    *)
(***************************************************************************)
\* A faulty overall timeout without the margin over the first-token timeout.
overallTimeoutMsFloorOnly(firstTokenTimeoutMs) ==
  Max(OVERALL_TIMEOUT_FLOOR_MS, firstTokenTimeoutMs)

overallTimeoutMs(firstTokenTimeoutMs) ==
  Max(OVERALL_TIMEOUT_FLOOR_MS, firstTokenTimeoutMs + OVERALL_TIMEOUT_EXTRA_MS)

createSignal(req, firstTokenTimeoutMs) ==
  [req EXCEPT !.aborted = FALSE, !.firstTokenSeen = FALSE, !.firstTokenTimedOut = FALSE,
              !.overallTimeout = TRUE, !.firstTokenTimeout = TRUE,
              !.overallTimeoutMs = overallTimeoutMs(firstTokenTimeoutMs),
              !.firstTokenTimeoutMs = firstTokenTimeoutMs]

\* A faulty clear that forgets the first-token timer.
clearOverallOnly(req) == [req EXCEPT !.overallTimeout = FALSE]

\* clear(): clearTimeout of both timers
clear(req) == [req EXCEPT !.overallTimeout = FALSE, !.firstTokenTimeout = FALSE]

markFirstTokenReceived(req) ==
  [req EXCEPT !.firstTokenSeen = TRUE, !.firstTokenTimeout = FALSE]

\* A faulty timedOut that reports every abort as a timeout.
timedOutOnAnyAbort(req) == req.aborted

timedOut(req) == req.firstTokenTimedOut

\* controller.abort(): the pending fetch, response.json() or reader.read()
\* rejects; an abort of an aborted controller does nothing.
Abort(req, by) ==
  IF req.aborted THEN req
  ELSE [req EXCEPT !.aborted = TRUE,
                   !.pc = IF req.pc \in Awaiting THEN "thrown" ELSE req.pc,
                   !.cause = IF req.pc \in Awaiting THEN by ELSE req.cause]

\* The callback of the first-token timer.
firstTokenTimeoutCallback(req) ==
  LET fired == [req EXCEPT !.firstTokenTimeout = FALSE]
  IN IF ~fired.firstTokenSeen
       THEN Abort([fired EXCEPT !.firstTokenTimedOut = TRUE], "first-token-timeout")
       ELSE fired

\* A faulty overall timer that gives way once a chunk has arrived.
overallTimeoutCallbackUntilFirstToken(req) ==
  IF req.firstTokenSeen THEN [req EXCEPT !.overallTimeout = FALSE]
  ELSE Abort([req EXCEPT !.overallTimeout = FALSE], "overall-timeout")

\* The callback of the overall timer.
overallTimeoutCallback(req) ==
  Abort([req EXCEPT !.overallTimeout = FALSE], "overall-timeout")

(***************************************************************************)
(* readChatStreamForCompletion (autocomplete.ts).                          *)
(***************************************************************************)
consumeLine(req, line) ==
  IF line.kind # "chunk" THEN [req EXCEPT !.completion = ""]
  ELSE LET marked == markFirstTokenReceived(req)
           content == req.content \o line.piece
       IN IF line.piece = "" THEN [marked EXCEPT !.completion = ""]
          ELSE [marked EXCEPT !.content = content,
                  !.completion = parseStreamedJsonCompletion(content, req.context, req.mode)]

\* A faulty inner loop that consumes every line of the read.
RECURSIVE ConsumeEveryLine(_, _)
KeepCompletion(next, rest) ==
  IF rest.completion # "" THEN rest ELSE [rest EXCEPT !.completion = next.completion]

ConsumeEveryRest(next, lines) == KeepCompletion(next, ConsumeEveryLine(next, lines))

ConsumeEveryLine(req, lines) ==
  IF lines = <<>> THEN req ELSE ConsumeEveryRest(consumeLine(req, Head(lines)), Tail(lines))

\* The inner loop over the complete lines of one read: it stops at the first
\* line that yields a completion.
RECURSIVE ConsumeLines(_, _)
\* if (completion) { await reader.cancel(); return completion; }
ConsumeRest(next, lines) == IF next.completion # "" THEN next ELSE ConsumeLines(next, lines)

ConsumeLines(req, lines) ==
  IF lines = <<>> THEN req ELSE ConsumeRest(consumeLine(req, Head(lines)), Tail(lines))

\* History: the pieces of the lines delivered, consumed or not.
Offer(req, lines) ==
  LET chunks == SelectSeq(lines, LAMBDA l : l.kind = "chunk" /\ l.piece # "")
  IN [req EXCEPT !.offered = @ \o [i \in 1..Len(chunks) |-> chunks[i].piece]]

\* A faulty end of stream that falls back to the raw content.
RawOfContent(last) ==
  IF last.completion # "" THEN last ELSE [last EXCEPT !.completion = last.content]

StreamEndRaw(req) == RawOfContent(consumeLine(req, req.buffer))

\* After the reader reports done: the rest of the buffer, then the content.
\* return parseStreamedJsonCompletion(content, context, mode)
OfContent(last) ==
  IF last.completion # "" THEN last
  ELSE [last EXCEPT !.completion =
          parseStreamedJsonCompletion(last.content, last.context, last.mode)]

StreamEnd(req) == OfContent(consumeLine(req, req.buffer))

(***************************************************************************)
(* suggestAutocomplete (autocomplete.ts) and the autocomplete:suggest      *)
(* handler (main.ts).                                                      *)
(***************************************************************************)
Response(completion, latencyMs, hasTimedOut, isTimedOut) ==
  [present |-> TRUE, completion |-> completion, latencyMs |-> latencyMs,
   hasTimedOut |-> hasTimedOut, timedOut |-> isTimedOut]

\* A faulty finally block that deletes the sender's entry whoever owns it.
ReleaseAnyController(controllers, sender, r) ==
  [controllers EXCEPT ![sender] = NoController]

\* The handler's finally block: the registry entry is removed only if it is
\* still this request's controller.
ReleaseController(controllers, sender, r) ==
  IF controllers[sender] = r THEN [controllers EXCEPT ![sender] = NoController]
  ELSE controllers

\* A return of suggestAutocomplete out of its try block: the response, the
\* finally block (signalState.clear()), then the handler's finally.
Return(r, req, stats, response, cause) ==
  /\ requests' = [requests EXCEPT ![r] =
        clear([req EXCEPT !.pc = "done", !.response = response,
                          \* the locals of the call are dead
                          !.elapsedMs = 0, !.reads = 0, !.buffer = BlankLine,
                          !.overallTimeoutMs = 0, !.firstTokenTimeoutMs = 0,
                          !.cause = IF req.cause = "none" THEN cause ELSE req.cause])]
  /\ runtimeStats' = stats
  /\ autocompleteControllers' = ReleaseController(autocompleteControllers, req.sender, r)
  /\ UNCHANGED <<runtimeSettings, uiVars, call>>

\* Math.round(performance.now() - startedAt)
LatencyOf(req) == req.elapsedMs

\* A faulty handler that leaves the previous controller alone.
AbortPreviousSkipped(reqs, previous) == reqs

\* previous?.abort(): the listener createSignal put on the external signal
\* aborts the request's own controller.
AbortPrevious(reqs, previous) ==
  IF previous # NoController THEN [reqs EXCEPT ![previous] = Abort(@, "external")] ELSE reqs

\* A faulty suggestAutocomplete that calls createSignal before its checks.
ReturnEarlyAfterSignal(base, response, cause) ==
  [createSignal(base, runtimeSettings.firstTokenTimeoutMs)
     EXCEPT !.pc = "done", !.response = response, !.cause = cause]

\* The early returns of suggestAutocomplete: the request ends before
\* createSignal and fetch are reached.
ReturnEarly(base, response, cause) ==
  [base EXCEPT !.pc = "done", !.response = response, !.cause = cause]

\* ipcMain.handle('autocomplete:suggest'): abort the sender's previous
\* controller, register a new one, and run suggestAutocomplete up to its
\* first await (or to its early return).
SuggestRequest(sender, choice) ==
  LET id == runtimeStats.requestCount + 1
      previous == autocompleteControllers[sender]
      afterAbort == AbortPrevious(requests, previous)
      counted == [runtimeStats EXCEPT !.requestCount = @ + 1]
      context == extractWordContext(choice.text, choice.cursorIndex)
      base == [IdleRequest EXCEPT !.sender = sender, !.context = context]
      early == Response("", 0, FALSE, FALSE)
  IN /\ ~MicrotaskPending
     /\ id <= MaxRequests
     /\ IF ~runtimeSettings.enabled
          THEN /\ requests' = [afterAbort EXCEPT ![id] =
                     ReturnEarly(base, early, "disabled")]
               /\ runtimeStats' = pushLatency(counted, early.latencyMs)
               /\ autocompleteControllers' = [autocompleteControllers EXCEPT ![sender] = NoController]
        ELSE IF runtimeSettings.mode = "word" /\ context.partialWord = ""
          THEN /\ requests' = [afterAbort EXCEPT ![id] =
                     ReturnEarly(base, early, "no-partial")]
               /\ runtimeStats' = pushLatency(counted, early.latencyMs)
               /\ autocompleteControllers' = [autocompleteControllers EXCEPT ![sender] = NoController]
        ELSE /\ requests' = [afterAbort EXCEPT ![id] =
                     createSignal([base EXCEPT !.pc = "fetch"], runtimeSettings.firstTokenTimeoutMs)]
             /\ runtimeStats' = counted
             /\ autocompleteControllers' = [autocompleteControllers EXCEPT ![sender] = id]
     /\ UNCHANGED <<runtimeSettings, uiVars, call>>

\* A faulty non-OK path that returns without pushLatency.
ResponseNotOkUnrecorded(r) ==
  /\ ~MicrotaskPending
  /\ requests[r].pc = "fetch"
  /\ Return(r, requests[r], runtimeStats,
            Response("", LatencyOf(requests[r]), FALSE, FALSE), "non-ok")

\* fetch resolves with a status that is not OK.
ResponseNotOk(r) ==
  /\ ~MicrotaskPending
  /\ requests[r].pc = "fetch"
  /\ Return(r, requests[r], pushLatency(runtimeStats, LatencyOf(requests[r])),
            Response("", LatencyOf(requests[r]), FALSE, FALSE), "non-ok")

\* fetch resolves with an OK status; readChatStreamForCompletion is called
\* with the mode of that moment and awaits response.json() or reader.read().
ResponseOk(r, hasBody) ==
  /\ ~MicrotaskPending
  /\ requests[r].pc = "fetch"
  /\ requests' = [requests EXCEPT ![r] =
        [@ EXCEPT !.pc = IF hasBody THEN "read" ELSE "json", !.mode = runtimeSettings.mode]]
  /\ UNCHANGED <<runtimeSettings, runtimeStats, autocompleteControllers, uiVars, call>>

\* A response without a body: response.json() resolves.
JsonBody(r, content) ==
  LET req == markFirstTokenReceived(requests[r])
  IN /\ ~MicrotaskPending
     /\ requests[r].pc = "json"
     /\ Return(r, req, pushLatency(runtimeStats, LatencyOf(req)),
               Response(parseChatCompletion(content, req.context, req.mode),
                        LatencyOf(req), TRUE, FALSE), "json-body")

\* reader.read() resolves with bytes that hold the complete lines `lines`
\* (the first one completes what the buffer held) and leave `tail` unterminated.
AfterRead(after, tail) ==
  IF after.completion # ""
    \* await reader.cancel()
    THEN [after EXCEPT !.pc = "cancel", !.reads = @ + 1, !.buffer = BlankLine]
    ELSE [after EXCEPT !.reads = @ + 1, !.buffer = tail]

StreamRead(r, lines, tail) ==
  /\ ~MicrotaskPending
  /\ requests[r].pc = "read"
  /\ requests[r].reads < MaxReads
  /\ requests[r].buffer.kind # "blank" =>
       IF lines = <<>> THEN tail.kind # "blank" ELSE lines[1].kind # "blank"
  /\ requests' = [requests EXCEPT ![r] =
        AfterRead(ConsumeLines(Offer(requests[r], lines), lines), tail)]
  /\ UNCHANGED <<runtimeSettings, runtimeStats, autocompleteControllers, uiVars, call>>

\* reader.cancel() resolves: the completion is returned.
FinishCancel(r) ==
  /\ ~MicrotaskPending
  /\ requests[r].pc = "cancel"
  /\ Return(r, requests[r], pushLatency(runtimeStats, LatencyOf(requests[r])),
            Response(requests[r].completion, LatencyOf(requests[r]), TRUE, FALSE), "accepted")

\* reader.read() reports done.
ReturnCompletion(r, req) ==
  Return(r, req, pushLatency(runtimeStats, LatencyOf(req)),
         Response(req.completion, LatencyOf(req), TRUE, FALSE),
         IF req.completion # "" THEN "accepted" ELSE "stream-ended")

StreamDone(r) ==
  /\ ~MicrotaskPending
  /\ requests[r].pc = "read"
  /\ ReturnCompletion(r, StreamEnd(Offer(requests[r], <<requests[r].buffer>>)))

\* fetch, response.json() or reader.read() rejects with a network error.
NetworkError(r) ==
  /\ ~MicrotaskPending
  /\ requests[r].pc \in Awaiting
  /\ requests' = [requests EXCEPT ![r] = [@ EXCEPT !.pc = "thrown", !.cause = "network-error"]]
  /\ UNCHANGED <<runtimeSettings, runtimeStats, autocompleteControllers, uiVars, call>>

\* A faulty catch block that rethrows: the call ends without a response.
CatchRethrows(r) ==
  /\ requests[r].pc = "thrown"
  /\ Return(r, requests[r], runtimeStats, NoResponse, "none")

\* The catch block of suggestAutocomplete.
Catch(r) ==
  LET req == requests[r]
      isTimedOut == timedOut(req)
      stats == IF isTimedOut THEN [runtimeStats EXCEPT !.timeoutCount = @ + 1] ELSE runtimeStats
  IN /\ req.pc = "thrown"
     /\ Return(r, req, pushLatency(stats, LatencyOf(req)),
               Response("", LatencyOf(req), TRUE, isTimedOut), "none")

FirstTokenTimerFires(r) ==
  /\ ~MicrotaskPending
  /\ requests[r].firstTokenTimeout
  /\ requests[r].elapsedMs >= requests[r].firstTokenTimeoutMs
  /\ requests' = [requests EXCEPT ![r] = firstTokenTimeoutCallback(@)]
  /\ UNCHANGED <<runtimeSettings, runtimeStats, autocompleteControllers, uiVars, call>>

OverallTimerFires(r) ==
  /\ ~MicrotaskPending
  /\ requests[r].overallTimeout
  /\ requests[r].elapsedMs >= requests[r].overallTimeoutMs
  /\ requests' = [requests EXCEPT ![r] = overallTimeoutCallback(@)]
  /\ UNCHANGED <<runtimeSettings, runtimeStats, autocompleteControllers, uiVars, call>>

TimerDue(r) ==
  \/ requests[r].firstTokenTimeout /\ requests[r].elapsedMs >= requests[r].firstTokenTimeoutMs
  \/ requests[r].overallTimeout /\ requests[r].elapsedMs >= requests[r].overallTimeoutMs

TimerArmed(r) == requests[r].firstTokenTimeout \/ requests[r].overallTimeout

\* Time passes for every request in flight, while a timer is armed; a due
\* timer fires first.
Tick ==
  /\ ~MicrotaskPending
  /\ \E r \in RequestIds : TimerArmed(r)
  /\ \A r \in RequestIds : ~TimerDue(r)
  /\ requests' = [r \in RequestIds |->
        IF InFlight(r) THEN [requests[r] EXCEPT !.elapsedMs = @ + TimeStep] ELSE requests[r]]
  /\ UNCHANGED <<runtimeSettings, runtimeStats, autocompleteControllers, uiVars, call>>

(***************************************************************************)
(* The renderer (App.tsx): the suggestion orchestrator.  An item is known  *)
(* by its index, which stands for its id too.  The debounce timer is not   *)
(* timed: once armed it may fire at any later moment.                      *)
(***************************************************************************)
\* items of the dataset
NumItems == 2

\* values autocompleteRequestVersionRef.current takes in one behaviour
MaxVersion == 3

\* calls of autocompleteSuggest awaited at one time
MaxPending == 2

ItemIds == 1..NumItems

OriginalText(index) == IF index = 1 THEN "too far" ELSE "too f"

\* What the user can turn the text of an item into.
TextChoices == {"too f", "too fa"}

\* The selection an event reports: the caret at the end of the text, or the
\* whole text selected.
Selections(text) == {[start |-> Len(text), end |-> Len(text)], [start |-> 0, end |-> Len(text)]}

\* What autocompleteSuggest resolves with.
SuggestResponses ==
  {[completion |-> "ar", timedOut |-> FALSE], [completion |-> " ", timedOut |-> FALSE],
   [completion |-> "", timedOut |-> FALSE], [completion |-> "", timedOut |-> TRUE]}

\* suggestion === null
NoSuggestion ==
  [present |-> FALSE, itemId |-> 0, completion |-> "", cursorIndex |-> 0, baseText |-> "",
   source |-> "none"]

\* autocompleteTimerRef.current === null, or a timer that has fired
NoTimer ==
  [armed |-> FALSE, index |-> 0, text |-> "", cursorIndex |-> 0, version |-> 0,
   enabled |-> FALSE, ok |-> FALSE]

\* No response of autocompleteSuggest belongs to the event.
NoSuggestResponse == [completion |-> "", timedOut |-> FALSE]

\* lastEvent tells a text change made with a collapsed selection, and its
\* field, and an event that dismisses the suggestion (a selected range, a move
\* to another item, a blur, the Escape key) from every other event.
OtherEvent == [handler |-> "other", index |-> 0, cursorIndex |-> 0, response |-> NoSuggestResponse]

DismissEvent == [handler |-> "dismiss", index |-> 0, cursorIndex |-> 0, response |-> NoSuggestResponse]

\* autocompleteSuggest resolved with the response for a pending call.
ResolveEvent(response) ==
  [handler |-> "requestOllamaSuggestion", index |-> 0, cursorIndex |-> 0,
   response |-> response]

\* acceptSuggestion(index, cursorIndex) was called.
AcceptEvent(index, cursorIndex) ==
  [handler |-> "acceptSuggestion", index |-> index, cursorIndex |-> cursorIndex,
   response |-> NoSuggestResponse]

CaretTextChange(index) ==
  [handler |-> "handleTextChange", index |-> index, cursorIndex |-> 0, response |-> NoSuggestResponse]

(***************************************************************************)
(* createDebouncedPerKeySaver (debounce.ts), as App.tsx uses it.           *)
(***************************************************************************)
\* timers.get(key) === undefined
NoSaveTimer == [armed |-> FALSE, text |-> ""]

cancelSave(t, key) == [t EXCEPT ![key] = NoSaveTimer]

scheduleSave(t, key, text) == [cancelSave(t, key) EXCEPT ![key] = [armed |-> TRUE, text |-> text]]

\* The state clearSuggestion and queueSuggestion work on.
Orchestrator ==
  [suggestion |-> suggestion, version |-> autocompleteRequestVersionRef,
   timer |-> autocompleteTimerRef]

\* clearSuggestion without the increment of autocompleteRequestVersionRef
clearSuggestionKeepVersion(o) ==
  [suggestion |-> NoSuggestion, version |-> o.version, timer |-> NoTimer]

clearSuggestion(o) ==
  [suggestion |-> NoSuggestion, version |-> o.version + 1, timer |-> NoTimer]

LocalSuggestion(index, text, cursorIndex, localCompletion) ==
  IF localCompletion # ""
    THEN [present |-> TRUE, itemId |-> index, completion |-> localCompletion,
          cursorIndex |-> cursorIndex, baseText |-> text, source |-> "local"]
    ELSE NoSuggestion

\* The timer queueSuggestion arms: its callback holds the arguments and the
\* requestOllamaSuggestion of this render, with the settings and health it closed over.
DebounceTimer(index, text, cursorIndex, version) ==
  [armed |-> TRUE, index |-> index, text |-> text, cursorIndex |-> cursorIndex,
   version |-> version, enabled |-> autocompleteSettings.enabled,
   ok |-> autocompleteHealth.ok]

\* A faulty queueSuggestion that leaves a pending debounce timer in place.
ScheduleKeepingTimer(o, index, text, cursorIndex, localCompletion) ==
  [suggestion |-> LocalSuggestion(index, text, cursorIndex, localCompletion),
   version |-> o.version + 1,
   timer |-> IF o.timer.armed THEN o.timer
             ELSE IF ~autocompleteHealth.ok THEN NoTimer
             ELSE DebounceTimer(index, text, cursorIndex, o.version + 1)]

\* queueSuggestion from the local completion on.
Schedule(o, index, text, cursorIndex, localCompletion) ==
  [suggestion |-> LocalSuggestion(index, text, cursorIndex, localCompletion),
   version |-> o.version + 1,
   timer |-> IF ~autocompleteHealth.ok THEN NoTimer
             ELSE DebounceTimer(index, text, cursorIndex, o.version + 1)]

queueSuggestion(o, index, text, cursorIndex, selectionStart, selectionEnd) ==
  IF ~autocompleteSettings.enabled THEN [o EXCEPT !.suggestion = NoSuggestion]
  ELSE IF selectionStart # selectionEnd THEN [o EXCEPT !.suggestion = NoSuggestion]
  ELSE Schedule(o, index, text, cursorIndex,
                suggestLocalCompletion([i \in 1..NumItems |-> items[i].currentText], text, cursorIndex,
                                       autocompleteSettings.mode))

SetOrchestrator(o) ==
  /\ o.version <= MaxVersion
  /\ suggestion' = o.suggestion
  /\ autocompleteRequestVersionRef' = o.version
  /\ autocompleteTimerRef' = o.timer

\* onChange: the text of the item changes, then queueSuggestion runs while
\* itemsRef still holds the texts of the last render.
handleTextChange(index, nextText, selection) ==
  /\ nextText # items[index].currentText
  /\ items' = [items EXCEPT ![index].currentText = nextText]
  /\ SetOrchestrator(queueSuggestion(Orchestrator, index, nextText, selection.start,
                                     selection.start, selection.end))
  /\ timers' = scheduleSave(timers, index, nextText)
  /\ lastEvent' = IF selection.start = selection.end THEN CaretTextChange(index)
                   ELSE OtherEvent
  /\ UNCHANGED <<autocompleteSettings, autocompleteHealth, pendingSuggests, mainVars, call>>

onFocus(index, selection) ==
  /\ SetOrchestrator(queueSuggestion(Orchestrator, index, items[index].currentText,
                                     selection.start, selection.start, selection.end))
  /\ lastEvent' = OtherEvent
  /\ UNCHANGED <<items, autocompleteSettings, autocompleteHealth, pendingSuggests, timers,
                 mainVars, call>>

onSelect(index, selection) ==
  /\ SetOrchestrator(IF selection.start # selection.end THEN clearSuggestion(Orchestrator)
                     ELSE queueSuggestion(Orchestrator, index, items[index].currentText,
                                          selection.start, selection.start, selection.end))
  /\ lastEvent' = IF selection.start # selection.end THEN DismissEvent ELSE OtherEvent
  /\ UNCHANGED <<items, autocompleteSettings, autocompleteHealth, pendingSuggests, timers,
                 mainVars, call>>

onBlur ==
  /\ SetOrchestrator(clearSuggestion(Orchestrator))
  /\ lastEvent' = DismissEvent
  /\ UNCHANGED <<items, autocompleteSettings, autocompleteHealth, pendingSuggests, timers,
                 mainVars, call>>

\* goToIndex: the current index, which this model leaves out, and clearSuggestion
goToIndex ==
  /\ SetOrchestrator(clearSuggestion(Orchestrator))
  /\ lastEvent' = DismissEvent
  /\ UNCHANGED <<items, autocompleteSettings, autocompleteHealth, pendingSuggests, timers,
                 mainVars, call>>

\* handleRestore, up to the await of the saver that flushSave calls at once
handleRestore(index) ==
  /\ items' = [items EXCEPT ![index].currentText = items[index].originalText]
  /\ SetOrchestrator(clearSuggestion(Orchestrator))
  /\ timers' = cancelSave(timers, index)
  /\ lastEvent' = OtherEvent
  /\ UNCHANGED <<autocompleteSettings, autocompleteHealth, pendingSuggests, mainVars, call>>

\* A faulty render that shows the suggestion in every item whose text equals
\* the base text.
itemSuggestionOfAnyItem(index) ==
  /\ suggestion.present
  /\ suggestion.baseText = items[index].currentText

\* The suggestion the textarea of the item renders as ghost text.
itemSuggestion(index) ==
  /\ suggestion.present
  /\ suggestion.itemId = index
  /\ suggestion.baseText = items[index].currentText

\* acceptSuggestion once the suggestion is known to be of this item.
Accepted(index, insertion) ==
  /\ items' = [items EXCEPT ![index].currentText = insertion.nextText]
  /\ timers' = scheduleSave(timers, index, insertion.nextText)
  /\ SetOrchestrator(queueSuggestion(clearSuggestion(Orchestrator), index, insertion.nextText,
                                     insertion.nextCursorIndex, insertion.nextCursorIndex,
                                     insertion.nextCursorIndex))

acceptSuggestion(index, cursorIndex) ==
  IF ~suggestion.present \/ suggestion.itemId # index
    THEN UNCHANGED <<items, suggestion, autocompleteRequestVersionRef, autocompleteTimerRef,
                     timers>>
  ELSE IF items[index].currentText # suggestion.baseText \/ suggestion.cursorIndex # cursorIndex
    THEN SetOrchestrator(clearSuggestion(Orchestrator)) /\ UNCHANGED <<items, timers>>
  ELSE Accepted(index, insertCompletionAtCursor(items[index].currentText, cursorIndex,
                                                suggestion.completion))

\* onKeyDown with Escape or Tab while the item shows a suggestion
onKeyDown(index, key, selectionStart) ==
  /\ itemSuggestion(index)
  /\ IF key = "Escape"
       THEN SetOrchestrator(clearSuggestion(Orchestrator)) /\ UNCHANGED <<items, timers>>
       ELSE acceptSuggestion(index, selectionStart)
  /\ lastEvent' = IF key = "Escape" THEN DismissEvent ELSE AcceptEvent(index, selectionStart)
  /\ UNCHANGED <<autocompleteSettings, autocompleteHealth, pendingSuggests, mainVars, call>>

\* The debounce timer fires and calls requestOllamaSuggestion, which runs up
\* to its await.  The ref keeps the id of the fired timer, which
\* clearTimeout ignores: it is modelled as no timer.
AutocompleteTimerFires ==
  /\ autocompleteTimerRef.armed
  /\ Cardinality(pendingSuggests) < MaxPending
  /\ autocompleteTimerRef' = NoTimer
  /\ pendingSuggests' =
       IF ~autocompleteTimerRef.enabled \/ ~autocompleteTimerRef.ok THEN pendingSuggests
       ELSE pendingSuggests \cup
              {[index |-> autocompleteTimerRef.index, text |-> autocompleteTimerRef.text,
                cursorIndex |-> autocompleteTimerRef.cursorIndex,
                version |-> autocompleteTimerRef.version]}
  /\ lastEvent' = OtherEvent
  /\ UNCHANGED <<items, suggestion, autocompleteRequestVersionRef, autocompleteSettings,
                 autocompleteHealth, timers, mainVars, call>>

RemoteSuggestion(q, response) ==
  [present |-> TRUE, itemId |-> q.index, completion |-> response.completion,
   cursorIndex |-> q.cursorIndex, baseText |-> q.text, source |-> "ollama"]

\* A faulty requestOllamaSuggestion without the check of the text.
requestOllamaSuggestionAnyText(q, response) ==
  IF q.version # autocompleteRequestVersionRef THEN suggestion
  ELSE IF response.timedOut \/ Trim(response.completion) = "" THEN suggestion
  ELSE RemoteSuggestion(q, response)

\* A faulty requestOllamaSuggestion that clears the display on an empty or
\* timed out response.
requestOllamaSuggestionClearsOnEmpty(q, response) ==
  IF q.version # autocompleteRequestVersionRef THEN suggestion
  ELSE IF items[q.index].currentText # q.text THEN suggestion
  ELSE IF response.timedOut \/ Trim(response.completion) = "" THEN NoSuggestion
  ELSE RemoteSuggestion(q, response)

\* A faulty requestOllamaSuggestion without the check of the version.
requestOllamaSuggestionAnyVersion(q, response) ==
  IF items[q.index].currentText # q.text THEN suggestion
  ELSE IF response.timedOut \/ Trim(response.completion) = "" THEN suggestion
  ELSE RemoteSuggestion(q, response)

\* requestOllamaSuggestion after its await: the suggestion it leaves.
requestOllamaSuggestion(q, response) ==
  IF q.version # autocompleteRequestVersionRef THEN suggestion
  ELSE IF items[q.index].currentText # q.text THEN suggestion
  ELSE IF response.timedOut \/ Trim(response.completion) = "" THEN suggestion
  ELSE RemoteSuggestion(q, response)

\* autocompleteSuggest resolves for the pending call q.
SuggestResolves(q, response) ==
  /\ q \in pendingSuggests
  /\ pendingSuggests' = pendingSuggests \ {q}
  /\ suggestion' = requestOllamaSuggestion(q, response)
  /\ lastEvent' = ResolveEvent(response)
  /\ UNCHANGED <<items, autocompleteRequestVersionRef, autocompleteTimerRef,
                 autocompleteSettings, autocompleteHealth, timers, mainVars, call>>

\* setAutocompleteSettings of App.tsx, after the settings were loaded, saved or reset
SettingsLoaded(settings) ==
  /\ settings # autocompleteSettings
  /\ autocompleteSettings' = settings
  /\ lastEvent' = OtherEvent
  /\ UNCHANGED <<items, suggestion, autocompleteRequestVersionRef, autocompleteTimerRef,
                 autocompleteHealth, pendingSuggests, timers, mainVars, call>>

\* refreshAutocompleteHealth: setAutocompleteHealth(health)
refreshAutocompleteHealth(ok) ==
  /\ ok # autocompleteHealth.ok
  /\ autocompleteHealth' = [ok |-> ok]
  /\ lastEvent' = OtherEvent
  /\ UNCHANGED <<items, suggestion, autocompleteRequestVersionRef, autocompleteTimerRef,
                 autocompleteSettings, pendingSuggests, timers, mainVars, call>>

\* No pure function is called on its own.
NoCall == [fn |-> "none"]

\* The renderer before initializeAutocomplete resolves: no settings, no health.
InitRenderer ==
  /\ items = [i \in ItemIds |-> [currentText |-> OriginalText(i), originalText |-> OriginalText(i)]]
  /\ suggestion = NoSuggestion
  /\ autocompleteTimerRef = NoTimer
  /\ autocompleteRequestVersionRef = 0
  /\ autocompleteSettings = [enabled |-> FALSE, mode |-> "word"]
  /\ autocompleteHealth = [ok |-> FALSE]
  /\ pendingSuggests = {}
  /\ timers = [i \in ItemIds |-> NoSaveTimer]
  /\ lastEvent = OtherEvent

(***************************************************************************)
(* The main-process specification.                                         *)
(***************************************************************************)
\* The application after construction.
InitIdle ==
  /\ runtimeSettings \in SettingsChoices
  /\ runtimeStats = [requestCount |-> 0, timeoutCount |-> 0, latencies |-> <<>>,
                     lastLatencyMs |-> NoLatency, recorded |-> 0]
  /\ requests = [r \in RequestIds |-> IdleRequest]
  /\ autocompleteControllers = [s \in Senders |-> NoController]
  /\ InitRenderer

Init == InitIdle /\ call = NoCall

Next ==
  \/ \E sender \in Senders, choice \in RequestChoices : SuggestRequest(sender, choice)
  \/ \E r \in RequestIds : ResponseNotOk(r)
  \/ \E r \in RequestIds, hasBody \in BOOLEAN : ResponseOk(r, hasBody)
  \/ \E r \in RequestIds, piece \in MainPieces : JsonBody(r, piece)
  \/ \E r \in RequestIds, line \in {MalformedLine} \cup {ChunkLine(p) : p \in MainPieces} :
        StreamRead(r, <<line>>, BlankLine)
  \/ \E r \in RequestIds : FinishCancel(r)
  \/ \E r \in RequestIds : StreamDone(r)
  \/ \E r \in RequestIds : NetworkError(r)
  \/ \E r \in RequestIds : Catch(r)
  \/ \E r \in RequestIds : FirstTokenTimerFires(r)
  \/ \E r \in RequestIds : OverallTimerFires(r)
  \/ Tick

Spec == Init /\ [][Next]_vars

(***************************************************************************)
(* Properties of the main process.                                         *)
(***************************************************************************)
Returned(r) == requests[r].pc = "done"

\* the steps in which request r starts, and in which it returns
Starts(r) == requests[r].pc = "idle" /\ requests'[r].pc # "idle"

Returns(r) == requests[r].pc # "done" /\ requests'[r].pc = "done"

LiveRequests(sender) ==
  {r \in RequestIds : InFlight(r) /\ requests[r].sender = sender /\ ~requests[r].aborted}

\* C4: when a request arrives from a sender that has a request in flight, the
\* step that starts the new request has aborted the earlier one; at any time
\* a sender has at most one request in flight that is not aborted; the step
\* leaves the abort state of the other senders' requests as it was.
C4_AbortBeforeStart ==
  /\ [](\A sender \in Senders : Cardinality(LiveRequests(sender)) <= 1)
  /\ [][\A r \in RequestIds : Starts(r) =>
          \A p \in RequestIds \ {r} :
             /\ (InFlight(p) /\ requests[p].sender = requests'[r].sender)
                   => requests'[p].aborted
             /\ requests[p].sender # requests'[r].sender
                   => requests'[p].aborted = requests[p].aborted]_vars

\* A request ended by the abort of its sender's next request, which is in
\* flight and not aborted.
C4_Witness ==
  \E p, r \in RequestIds :
     /\ Returned(p) /\ requests[p].cause = "external"
     /\ requests[r].sender = requests[p].sender
     /\ InFlight(r) /\ ~requests[r].aborted

\* C5: a request that has returned, in whatever terminal state, has neither
\* its first-token timer nor its overall timer armed.
C5_TimersCleared ==
  \A r \in RequestIds :
     Returned(r) => ~requests[r].firstTokenTimeout /\ ~requests[r].overallTimeout

\* A request that failed on the network before any chunk, when both timers
\* were armed, and one that returned an accepted completion.
C5_Witness ==
  \E p, r \in RequestIds :
     /\ Returned(p) /\ requests[p].cause = "network-error" /\ ~requests[p].firstTokenSeen
     /\ Returned(r) /\ requests[r].cause = "accepted"

\* C6: a response has timedOut = TRUE only if the first-token timer aborted
\* the request before any chunk was consumed; a request ended by an external
\* abort, by the overall timer, by a network error or by a non-OK status has
\* timedOut = FALSE.
C6_TimedOutOnlyFirstToken ==
  \A r \in RequestIds :
     requests[r].response.present =>
       /\ requests[r].response.timedOut =>
            requests[r].cause = "first-token-timeout" /\ ~requests[r].firstTokenSeen
       /\ requests[r].cause \in {"external", "overall-timeout", "network-error", "non-ok"} =>
            ~requests[r].response.timedOut

\* One request ended by an external abort and one by the first-token timer.
C6_Witness ==
  \E p, r \in RequestIds :
     /\ Returned(p) /\ requests[p].cause = "external" /\ ~requests[p].response.timedOut
     /\ Returned(r) /\ requests[r].cause = "first-token-timeout"
     /\ requests[r].response.timedOut

TimeoutCauses == {"first-token-timeout", "overall-timeout"}

\* C7: every request ended by a timeout, first-token or overall, returns an
\* empty completion and has added one to timeoutCount.
C7_EveryTimeoutCounted ==
  /\ \A r \in RequestIds :
       (Returned(r) /\ requests[r].cause \in TimeoutCauses) => requests[r].response.completion = ""
  /\ runtimeStats.timeoutCount =
       Cardinality({r \in RequestIds : Returned(r) /\ requests[r].cause \in TimeoutCauses})

\* C8: every call adds one to requestCount and records one latency sample,
\* whatever its outcome; so with no request in flight the number of samples
\* recorded equals requestCount; timeoutCount never exceeds requestCount.
C8_OneSamplePerCall ==
  /\ [](/\ runtimeStats.recorded + Cardinality({r \in RequestIds : InFlight(r)})
              = runtimeStats.requestCount
        /\ ((\A r \in RequestIds : ~InFlight(r))
              => runtimeStats.recorded = runtimeStats.requestCount)
        /\ Len(runtimeStats.latencies) = Min(runtimeStats.recorded, LATENCY_WINDOW_SIZE)
        /\ runtimeStats.timeoutCount <= runtimeStats.requestCount)
  /\ [][/\ runtimeStats'.requestCount - runtimeStats.requestCount
              = Cardinality({r \in RequestIds : Starts(r)})
        /\ runtimeStats'.recorded - runtimeStats.recorded
              = Cardinality({r \in RequestIds : Returns(r)})]_vars

\* Two calls have returned, none is in flight: one ended with a non-OK
\* status, one with a first-token timeout.
C8_Witness ==
  /\ \A r \in RequestIds : ~InFlight(r)
  /\ runtimeStats.requestCount >= 2
  /\ runtimeStats.timeoutCount >= 1
  /\ \E r \in RequestIds : Returned(r) /\ requests[r].cause = "non-ok"

\* The first-token timer of the request r fires in this step.
FirstTokenFired(r) ==
  /\ requests[r].firstTokenTimeout
  /\ ~requests'[r].firstTokenTimeout
  /\ ~requests'[r].firstTokenSeen
  /\ requests'[r].pc # "done"

\* The overall timer of the request r fires in this step.
OverallFired(r) ==
  /\ requests[r].overallTimeout
  /\ ~requests'[r].overallTimeout
  /\ requests'[r].pc # "done"

\* The external signal of the request r aborts in this step: its sender
\* sends the next request while r holds the sender's controller.
ExternalAbort(r) ==
  \E n \in RequestIds :
     Starts(n) /\ autocompleteControllers[requests'[n].sender] = r

\* C11: each of three triggers aborts the signal of the network call: the
\* first-token timer firing while no chunk has been received, the overall
\* timer firing, and the external signal aborting.  The first-token timer
\* never aborts a request that has received a well-formed chunk; the overall
\* timer aborts the request whether chunks have arrived or not.
C11_AbortTriggers ==
  /\ [](\A r \in RequestIds :
          requests[r].firstTokenSeen =>
            ~requests[r].firstTokenTimeout /\ ~requests[r].firstTokenTimedOut)
  /\ [][\A r \in RequestIds :
          /\ FirstTokenFired(r) =>
                ~requests[r].firstTokenSeen /\ requests'[r].aborted
                  /\ requests'[r].firstTokenTimedOut
          /\ OverallFired(r) => requests'[r].aborted
          /\ ExternalAbort(r) => requests'[r].aborted
          /\ (requests[r].firstTokenSeen /\ ~requests[r].aborted /\ requests'[r].aborted)
                => OverallFired(r) \/ ExternalAbort(r)]_vars

\* One request was aborted by the overall timer after a chunk had arrived,
\* another by the first-token timer.
C11_Witness ==
  \E p, r \in RequestIds :
     /\ requests[p].cause = "overall-timeout" /\ requests[p].firstTokenSeen
     /\ requests[p].aborted
     /\ requests[r].cause = "first-token-timeout" /\ requests[r].aborted

(***************************************************************************)
(* The stream specification: one request, and a stream that delivers       *)
(* several lines per read and leaves the last one unterminated.            *)
(***************************************************************************)
NextStream ==
  \/ \E choice \in {[text |-> "too f", cursorIndex |-> 5]} :
        runtimeStats.requestCount = 0 /\ SuggestRequest(1, choice)
  \/ \E r \in RequestIds : ResponseOk(r, TRUE)
  \/ \E r \in RequestIds, lines \in StreamReads, tail \in StreamLines : StreamRead(r, lines, tail)
  \/ \E r \in RequestIds : FinishCancel(r)
  \/ \E r \in RequestIds : StreamDone(r)
  \/ \E r \in RequestIds : Catch(r)
  \/ \E r \in RequestIds : FirstTokenTimerFires(r)
  \/ \E r \in RequestIds : OverallTimerFires(r)
  \/ Tick

SpecStream == Init /\ [][NextStream]_vars

RECURSIVE Concat(_)
Concat(pieces) == IF pieces = <<>> THEN "" ELSE Head(pieces) \o Concat(Tail(pieces))

\* The content accumulated at the k-th chunk boundary.
ContentAt(req, k) == Concat(SubSeq(req.offered, 1, k))

ValidAt(req, k) == parseStreamedJsonCompletion(ContentAt(req, k), req.context, req.mode)

\* The first chunk boundary at which the accumulated content validates, or 0.
FirstValid(req) ==
  LET valid == {k \in 1..Len(req.offered) : ValidAt(req, k) # ""}
  IN IF valid = {} THEN 0 ELSE CHOOSE k \in valid : \A j \in valid : k <= j

\* C9: while the stream is read no boundary so far has validated; once the
\* reader is cancelled, and when the completion is returned, the content is
\* what had accumulated at the first boundary that validates, no later chunk
\* is in it, and the completion is the validation result of that content.
C9_EarlyAccept ==
  \A r \in RequestIds :
     LET req == requests[r]
         k == FirstValid(req)
     IN /\ req.pc = "read" => k = 0 /\ req.content = Concat(req.offered)
        /\ req.pc = "cancel" =>
             /\ k > 0 /\ req.content = ContentAt(req, k)
             /\ req.completion = ValidAt(req, k)
        /\ (Returned(r) /\ req.cause = "accepted") =>
             /\ k > 0 /\ req.content = ContentAt(req, k)
             /\ req.response.completion = ValidAt(req, k)

\* A completion accepted at the first line of a read that delivered two
\* chunks, after a boundary that did not validate.
C9_Witness ==
  \E r \in RequestIds :
     /\ Returned(r) /\ requests[r].cause = "accepted"
     /\ FirstValid(requests[r]) = 2
     /\ Len(requests[r].offered) = 3

\* C10: when the reader reports done and no boundary has validated, the call
\* returns a response with an empty completion and timedOut = FALSE, and
\* timeoutCount stays as it was.
C10_StreamEndedEmpty ==
  [][\A r \in RequestIds :
       (requests[r].pc = "read" /\ Returns(r) /\ FirstValid(requests'[r]) = 0) =>
          /\ requests'[r].response.present
          /\ requests'[r].response.completion = ""
          /\ requests'[r].response.hasTimedOut /\ ~requests'[r].response.timedOut
          /\ runtimeStats'.timeoutCount = runtimeStats.timeoutCount
          /\ runtimeStats'.recorded = runtimeStats.recorded + 1]_vars

\* A stream that ended after chunks none of whose boundaries validated.
C10_Witness ==
  \E r \in RequestIds :
     /\ Returned(r) /\ requests[r].cause = "stream-ended"
     /\ Len(requests[r].offered) >= 2
     /\ requests[r].response.present /\ requests[r].response.completion = ""

(***************************************************************************)
(* The renderer specification: the orchestrator of App.tsx, with the main  *)
(* process seen through what autocompleteSuggest resolves with.            *)
(***************************************************************************)
NextRenderer ==
  \/ \E index \in ItemIds, nextText \in TextChoices :
        \E selection \in Selections(nextText) : handleTextChange(index, nextText, selection)
  \/ \E index \in ItemIds :
        \E selection \in Selections(items[index].currentText) : onFocus(index, selection)
  \/ \E index \in ItemIds :
        \E selection \in Selections(items[index].currentText) : onSelect(index, selection)
  \/ onBlur
  \/ goToIndex
  \/ \E index \in ItemIds : handleRestore(index)
  \/ \E index \in ItemIds, key \in {"Escape", "Tab"} :
        \E selectionStart \in {0, suggestion.cursorIndex} : onKeyDown(index, key, selectionStart)
  \/ AutocompleteTimerFires
  \/ \E q \in pendingSuggests, response \in SuggestResponses : SuggestResolves(q, response)
  \/ \E settings \in [enabled : BOOLEAN, mode : {"word"}] : SettingsLoaded(settings)
  \/ \E ok \in BOOLEAN : refreshAutocompleteHealth(ok)

\* The main process idle, with the settings the renderer starts from.
InitWithRenderer ==
  /\ Init
  /\ runtimeSettings.enabled
  /\ runtimeSettings.mode = "word"

SpecRenderer == InitWithRenderer /\ [][NextRenderer]_vars

(***************************************************************************)
(* Properties of the renderer.                                             *)
(***************************************************************************)
\* The step applies the response of the pending call q: the call ends and
\* leaves a new remote suggestion.
Applies(q) ==
  /\ q \in pendingSuggests
  /\ q \notin pendingSuggests'
  /\ suggestion' # suggestion
  /\ suggestion'.source = "ollama"

\* A text change made with a collapsed selection in the field j.
CaretTextChangeIn(j) ==
  /\ lastEvent' = CaretTextChange(j)
  /\ items'[j].currentText # items[j].currentText

\* C1: under every interleaving of text changes and remote resolutions, the
\* response of a request issued with the text T for the item i becomes the
\* displayed suggestion only if the current text of the item i equals T when
\* the response resolves, and the suggestion it leaves is one for that item
\* and that text; a response that resolves while the text differs from T is
\* never applied.  (The text is compared at the resolution.)
C1_AppliedOnlyToSameText ==
  [][\A q \in pendingSuggests :
       Applies(q) => /\ items[q.index].currentText = q.text
                     /\ suggestion'.itemId = q.index
                     /\ suggestion'.baseText = q.text]_vars

\* A remote response was applied, and the item still shows the text it was asked for.
C1_Witness ==
  /\ suggestion.present
  /\ suggestion.source = "ollama"
  /\ items[suggestion.itemId].currentText = suggestion.baseText
  /\ pendingSuggests = {}

\* C2: a remote response sets the displayed suggestion only if the version
\* captured when its debounce was scheduled equals the current version at the
\* resolution; so of several scheduled requests only the most recently
\* scheduled one can set the suggestion, in whatever order they resolve.
C2_AppliedOnlyAtCurrentVersion ==
  [][\A q \in pendingSuggests :
       Applies(q) => /\ q.version = autocompleteRequestVersionRef
                     /\ \A p \in pendingSuggests : p.version <= q.version
                     /\ autocompleteTimerRef.armed => autocompleteTimerRef.version <= q.version]_vars

\* The newest of two requests in flight was applied first, the older one is
\* still awaited.
C2_Witness ==
  /\ suggestion.present
  /\ suggestion.source = "ollama"
  /\ \E p \in pendingSuggests : p.version < autocompleteRequestVersionRef

C12_VersionBumpOnCaretChange ==
  [][/\ autocompleteRequestVersionRef' >= autocompleteRequestVersionRef
     /\ \A j \in ItemIds :
          CaretTextChangeIn(j) =>
            /\ autocompleteRequestVersionRef' > autocompleteRequestVersionRef
            /\ autocompleteTimerRef'.armed
                 => autocompleteTimerRef'.version = autocompleteRequestVersionRef']_vars

Resolves(q) ==
  /\ q \in pendingSuggests
  /\ q \notin pendingSuggests'
  /\ lastEvent'.handler = "requestOllamaSuggestion"

\* C14: a remote response that is empty after trimming or has timedOut set
\* leaves the displayed suggestion unchanged, so a local placeholder already
\* shown stays; a response that passes the version, text and non-empty checks
\* replaces the displayed suggestion with the remote completion, recorded
\* with the cursor index and the base text of the request.
C14_RemoteReplacesPlaceholder ==
  [][\A q \in pendingSuggests :
       Resolves(q) =>
         /\ (lastEvent'.response.timedOut \/ Trim(lastEvent'.response.completion) = "")
              => suggestion' = suggestion
         /\ (/\ ~lastEvent'.response.timedOut
             /\ Trim(lastEvent'.response.completion) # ""
             /\ q.version = autocompleteRequestVersionRef
             /\ items[q.index].currentText = q.text)
              => suggestion' = [present |-> TRUE, itemId |-> q.index,
                                completion |-> lastEvent'.response.completion,
                                cursorIndex |-> q.cursorIndex, baseText |-> q.text,
                                source |-> "ollama"]]_vars

\* The current request resolved empty or timed out and the local placeholder
\* is still shown.
C14_Witness ==
  /\ lastEvent.handler = "requestOllamaSuggestion"
  /\ lastEvent.response.timedOut \/ Trim(lastEvent.response.completion) = ""
  /\ suggestion.present
  /\ suggestion.source = "local"
  /\ autocompleteTimerRef = NoTimer
  /\ pendingSuggests = {}

\* acceptSuggestion(i, cursorIndex) runs in this step for the item i, which
\* shows the suggestion.
Accepts(i) ==
  /\ lastEvent'.handler = "acceptSuggestion"
  /\ lastEvent'.index = i
  /\ suggestion.present
  /\ suggestion.itemId = i

\* C15: accepting a suggestion when the text of the item equals the base text
\* of the suggestion and the cursor equals the recorded offset sets the text
\* to the base text with the completion spliced in at that offset, schedules
\* a save of the new text and re-runs the suggestion pipeline on the new text
\* with the cursor at offset + length of the completion (a newer version, any
\* suggestion shown and any debounce timer armed are for that text and that
\* cursor); if the text or the cursor differs, the text and the saver are
\* left unchanged and the suggestion is cleared.
C15_AcceptSplicesAndRequeues ==
  [][\A i \in ItemIds :
       Accepts(i) =>
         IF items[i].currentText = suggestion.baseText
              /\ lastEvent'.cursorIndex = suggestion.cursorIndex
         THEN /\ items'[i].currentText =
                   SubSeq(suggestion.baseText, 1, suggestion.cursorIndex)
                     \o suggestion.completion
                     \o SubSeq(suggestion.baseText, suggestion.cursorIndex + 1,
                               Len(suggestion.baseText))
              /\ \A j \in ItemIds \ {i} : items'[j] = items[j]
              /\ timers'[i] = [armed |-> TRUE, text |-> items'[i].currentText]
              /\ autocompleteRequestVersionRef' > autocompleteRequestVersionRef
              /\ suggestion'.present =>
                   /\ suggestion'.itemId = i
                   /\ suggestion'.baseText = items'[i].currentText
                   /\ suggestion'.cursorIndex
                        = suggestion.cursorIndex + Len(suggestion.completion)
              /\ autocompleteTimerRef'.armed =>
                   /\ autocompleteTimerRef'.index = i
                   /\ autocompleteTimerRef'.text = items'[i].currentText
                   /\ autocompleteTimerRef'.cursorIndex
                        = suggestion.cursorIndex + Len(suggestion.completion)
                   /\ autocompleteTimerRef'.version = autocompleteRequestVersionRef'
              /\ autocompleteTimerRef'.armed
                   <=> (autocompleteSettings.enabled /\ autocompleteHealth.ok)
         ELSE /\ items' = items
              /\ timers' = timers
              /\ suggestion' = NoSuggestion]_vars

\* A suggestion was accepted at its offset: the save of the new text is
\* scheduled and the debounce timer is armed for the new text, the cursor
\* past the inserted completion.
C15_Witness ==
  /\ lastEvent.handler = "acceptSuggestion"
  /\ timers[lastEvent.index] = [armed |-> TRUE, text |-> items[lastEvent.index].currentText]
  /\ autocompleteTimerRef.armed
  /\ autocompleteTimerRef.text = items[lastEvent.index].currentText
  /\ autocompleteTimerRef.cursorIndex > lastEvent.cursorIndex
  /\ autocompleteTimerRef.version = autocompleteRequestVersionRef

\* C16: while the health status is not ok, no remote suggest request is
\* issued, yet every caret-only text change made while autocomplete is
\* enabled still shows the completion of the local lexicon when there is one.
C16_NoRemoteWhileUnhealthy ==
  [][~autocompleteHealth.ok =>
       /\ pendingSuggests' \subseteq pendingSuggests
       /\ \A j \in ItemIds :
            (CaretTextChangeIn(j) /\ autocompleteSettings.enabled) =>
              /\ ~autocompleteTimerRef'.armed
              /\ suggestion'.present => suggestion'.source = "local"]_vars

(***************************************************************************)
(* The editing workflow next to a call of suggestAutocomplete: the user    *)
(* edits the items, the settings and the health status change, while the   *)
(* main process serves one call through every outcome of the network call. *)
(***************************************************************************)
\* One call of suggestAutocomplete is made.
FirstCall == runtimeStats.requestCount = 0

NextWorkflow ==
  \/ \E sender \in Senders, choice \in RequestChoices :
        FirstCall /\ SuggestRequest(sender, choice)
  \/ \E r \in RequestIds : ResponseNotOk(r)
  \/ \E r \in RequestIds, hasBody \in BOOLEAN : ResponseOk(r, hasBody)
  \/ \E r \in RequestIds, piece \in MainPieces : JsonBody(r, piece)
  \/ \E r \in RequestIds, line \in {MalformedLine} \cup {ChunkLine(p) : p \in MainPieces} :
        StreamRead(r, <<line>>, BlankLine)
  \/ \E r \in RequestIds : FinishCancel(r)
  \/ \E r \in RequestIds : StreamDone(r)
  \/ \E r \in RequestIds : NetworkError(r)
  \/ \E r \in RequestIds : Catch(r)
  \/ \E r \in RequestIds : FirstTokenTimerFires(r)
  \/ \E r \in RequestIds : OverallTimerFires(r)
  \/ Tick
  \/ \E index \in ItemIds, nextText \in TextChoices :
        \E selection \in Selections(nextText) : handleTextChange(index, nextText, selection)
  \/ \E settings \in [enabled : BOOLEAN, mode : {"word"}] : SettingsLoaded(settings)
  \/ \E ok \in BOOLEAN : refreshAutocompleteHealth(ok)

SpecWorkflow == InitWithRenderer /\ [][NextWorkflow]_vars

\* The ways a call fails: non-OK status, connect or stream failure, abort,
\* first-token and overall timeout.
FailureCauses == {"non-ok", "network-error", "external", "first-token-timeout", "overall-timeout"}

\* C17: no outcome of the autocomplete path blocks or fails the editing and
\* save workflow: a call of suggestAutocomplete that has returned has a
\* response, with an empty completion after a failure; an error thrown in
\* the call is always caught and turned into a response, never a rejection;
\* and every text change schedules the debounced save of the new text of the
\* item, whatever the state of autocomplete and of the call.
C17_AutocompleteNeverBlocksEditing ==
  /\ [](\A r \in RequestIds :
          Returned(r) =>
            /\ requests[r].response.present
            /\ requests[r].cause \in FailureCauses => requests[r].response.completion = "")
  /\ [][/\ \A r \in RequestIds :
              (requests[r].pc = "thrown" /\ requests'[r] # requests[r]) =>
                requests'[r].pc = "done" /\ requests'[r].response.present
         /\ \A i \in ItemIds :
              items'[i].currentText # items[i].currentText =>
                timers'[i] = [armed |-> TRUE, text |-> items'[i].currentText]]_vars

\* The call failed with a network error and returned an empty response, and
\* a save is scheduled for an edited item while autocomplete is unhealthy.
C17_Witness ==
  /\ \E r \in RequestIds :
       /\ Returned(r)
       /\ requests[r].cause = "network-error"
       /\ requests[r].response.completion = ""
  /\ ~autocompleteHealth.ok
  /\ \E i \in ItemIds :
       /\ timers[i].armed
       /\ timers[i].text = items[i].currentText
       /\ items[i].currentText # items[i].originalText

(***************************************************************************)
(* The validator on its own: sanitizeAndValidateCompletion and             *)
(* sanitizeWordCompletion applied to an output of the model and a context  *)
(* that extractWordContext gives for a text and a cursor.                  *)
(***************************************************************************)
\* The outputs of the model offered to the validator.
RawOutputs ==
  {"", "hel", "hello", "HELLO", "hel hello", "xyz help", "\"hello\"", "hel-lo's", "he'd"}

\* The contexts: a text made of a previous word, a partial word and a
\* remainder, the cursor after the partial word.
ValidatorContexts ==
  {extractWordContext(previous \o partial \o remainder, Len(previous \o partial)) :
     previous \in {"", "hello "}, partial \in {"", "hel", "HE"}, remainder \in {"", "lo", "LLO"}}

ValidatorCalls ==
  [fn : {"sanitizeAndValidateCompletion"}, raw : RawOutputs, context : ValidatorContexts,
   mode : {"word", "phrase"}, returned : {FALSE}, result : {""}]
    \cup [fn : {"sanitizeWordCompletion"}, raw : RawOutputs, context : ValidatorContexts,
          mode : {"word"}, returned : {FALSE}, result : {""}]

CallSanitizeAndValidateCompletion ==
  /\ call.fn = "sanitizeAndValidateCompletion"
  /\ ~call.returned
  /\ call' = [call EXCEPT !.returned = TRUE,
                          !.result = sanitizeAndValidateCompletion(call.raw, call.context,
                                                                   call.mode)]
  /\ UNCHANGED <<mainVars, uiVars>>

CallSanitizeWordCompletion ==
  /\ call.fn = "sanitizeWordCompletion"
  /\ ~call.returned
  /\ call' = [call EXCEPT !.returned = TRUE,
                          !.result = sanitizeWordCompletion(call.raw, call.context.partialWord)]
  /\ UNCHANGED <<mainVars, uiVars>>

InitValidator ==
  /\ InitIdle
  /\ runtimeSettings.enabled
  /\ runtimeSettings.mode = "word"
  /\ call \in ValidatorCalls

NextValidator == CallSanitizeAndValidateCompletion \/ CallSanitizeWordCompletion

SpecValidator == InitValidator /\ [][NextValidator]_vars

\* C18: in word mode every non-empty result c of sanitizeAndValidateCompletion
\* holds only characters of [A-Za-z'-], differs case-insensitively from
\* rightWordRemainder, and partialWord + c lowercased differs from
\* previousWord; with an empty partialWord the result is empty.
C18_WordResultAcceptable ==
  (call.fn = "sanitizeAndValidateCompletion" /\ call.returned /\ call.mode = "word") =>
    /\ call.context.partialWord = "" => call.result = ""
    /\ call.result # "" =>
         /\ \A i \in 1..Len(call.result) : Ch(call.result, i) \in WordChars
         /\ ToLower(call.result) # ToLower(call.context.rightWordRemainder)
         /\ ToLower(call.context.partialWord \o call.result) # call.context.previousWord

\* A completion was accepted in a context with a previous word and a
\* remainder right of the cursor.
C18_Witness ==
  /\ call.fn = "sanitizeAndValidateCompletion"
  /\ call.returned
  /\ call.mode = "word"
  /\ call.result # ""
  /\ call.context.previousWord # ""
  /\ call.context.rightWordRemainder # ""

\* The word tokens of the cleaned output of the call.
CallTokens == WordTokens(sanitizeCompletion(call.raw))

\* The token k starts with the partial word of the call, case-insensitively,
\* and is strictly longer.
Completes(k) ==
  /\ Len(CallTokens[k]) > Len(call.context.partialWord)
  /\ ToLower(SubSeq(CallTokens[k], 1, Len(call.context.partialWord)))
       = ToLower(call.context.partialWord)

\* The result of the call is the suffix, after the length of the partial
\* word, of the first token that completes it; empty if there is none.
SuffixOfFirstCompleting ==
  IF \E k \in 1..Len(CallTokens) : Completes(k)
    THEN \E k \in 1..Len(CallTokens) :
           /\ Completes(k)
           /\ \A j \in 1..(k - 1) : ~Completes(j)
           /\ call.result = SubSeq(CallTokens[k], Len(call.context.partialWord) + 1,
                                   Len(CallTokens[k]))
    ELSE call.result = ""

\* C19, as stated: in word mode the validator picks the first word token of
\* the cleaned output that case-insensitively starts with the partial word
\* and is strictly longer than it; the completion is the suffix of that token
\* after the length of the partial word, and empty if no such token exists.
C19_FirstCompletingToken ==
  (call.fn = "sanitizeWordCompletion" /\ call.returned) => SuffixOfFirstCompleting

\* C19, amended: the above for a non-empty partial word; with an empty
\* partial word the result is empty whatever the output holds.
C19_FirstCompletingTokenOfPartial ==
  (call.fn = "sanitizeWordCompletion" /\ call.returned) =>
    IF call.context.partialWord = "" THEN call.result = "" ELSE SuffixOfFirstCompleting

\* The first token echoes the partial word and a later token completes it.
C19_Witness ==
  /\ call.fn = "sanitizeWordCompletion"
  /\ call.returned
  /\ call.result # ""
  /\ Len(CallTokens) > 1
  /\ ToLower(CallTokens[1]) = ToLower(call.context.partialWord)

(***************************************************************************)
(* Settings Store (autocompleteSettings.ts) and its handlers (main.ts).    *)
(* A number of the settings is kept in hundredths: 15 is 0.15, 25600 is    *)
(* 256.  A raw value is a value of any type, as JSON.parse or the IPC      *)
(* argument delivers it.                                                   *)
(***************************************************************************)
\* a finite number, given in hundredths
Num(hundredths) == [kind |-> "number", finite |-> TRUE, value |-> hundredths, text |-> ""]

\* NaN, Infinity or -Infinity
NotFinite == [kind |-> "number", finite |-> FALSE, value |-> 0, text |-> ""]

Str(text) == [kind |-> "string", finite |-> FALSE, value |-> 0, text |-> text]

Bool(b) == [kind |-> "boolean", finite |-> TRUE, value |-> IF b THEN 100 ELSE 0, text |-> ""]

Null == [kind |-> "null", finite |-> TRUE, value |-> 0, text |-> ""]

Undefined == [kind |-> "undefined", finite |-> FALSE, value |-> 0, text |-> ""]

\* raw.name: undefined for a key the object does not have
Field(raw, name) == IF name \in DOMAIN raw THEN raw[name] ELSE Undefined

DecimalDigits == "0123456789"

\* The value of a string of decimal digits, in hundredths.
RECURSIVE DigitsValue(_, _)
DigitsValue(s, acc) ==
  IF s = "" THEN acc
  ELSE DigitsValue(SubSeq(s, 2, Len(s)),
                   acc * 10 + 100 * (IndexOfFrom(DecimalDigits, Ch(s, 1), 1, FALSE) - 1))

\* Number(text) for a trimmed text: 0 for the empty text, the value of a
\* string of decimal digits, NaN for the other texts of this model.
StringToNumber(trimmed) ==
  IF \A i \in 1..Len(trimmed) : IndexOfFrom(DecimalDigits, Ch(trimmed, i), 1, FALSE) # 0
    THEN [finite |-> TRUE, value |-> DigitsValue(trimmed, 0)]
    ELSE [finite |-> FALSE, value |-> 0]

\* typeof value === 'number' ? value : Number(value)
ToNumeric(value) ==
  IF value.kind = "string" THEN StringToNumber(Trim(value.text))
  ELSE [finite |-> value.finite, value |-> value.value]

ClampFinite(numeric, fallback, min, max) ==
  IF ~numeric.finite THEN fallback ELSE Max(min, Min(max, numeric.value))

clampNumber(value, fallback, min, max) == ClampFinite(ToNumeric(value), fallback, min, max)

\* Math.round of a number in hundredths: halves round up.
MathRound(hundredths) == ((hundredths + 50) \div 100) * 100

\* A faulty clampInteger that does not round.
clampIntegerUnrounded(value, fallback, min, max) == clampNumber(value, fallback, min, max)

clampInteger(value, fallback, min, max) == MathRound(clampNumber(value, fallback, min, max))

normalizeKeepAlive(value, fallback) ==
  IF value.kind # "string" THEN fallback
  ELSE IF Trim(value.text) = "" THEN fallback
  ELSE Trim(value.text)

normalizeMode(value, fallback) ==
  IF value.kind = "string" /\ value.text \in {"word", "phrase"} THEN value.text ELSE fallback

normalizeBoolean(value, fallback) ==
  IF value.kind = "boolean" THEN value.value # 0 ELSE fallback

normalizeString(value, fallback) ==
  IF value.kind # "string" THEN fallback
  ELSE IF Trim(value.text) = "" THEN fallback
  ELSE Trim(value.text)

\* normalized.includes(phrase)
Includes(text, phrase) == IndexOfFrom(text, phrase, 1, FALSE) # 0

ReplaceObsoleteFirstPhrase(normalized, fallback) ==
  IF Includes(normalized, "Return ONLY missing characters to finish the current partial word.")
    THEN fallback
  ELSE normalized

ReplaceObsolete(normalized, fallback) ==
  IF Includes(normalized, "Return ONLY missing characters to finish the current partial word.")
    THEN fallback
  ELSE IF Includes(normalized, "Continuation:") /\ Includes(normalized, "Current partial word:")
    THEN fallback
  ELSE normalized

normalizePromptTemplate(value, fallback) ==
  ReplaceObsolete(normalizeString(value, fallback), fallback)

\* The first rule and the last four lines of the default template.
DEFAULT_PROMPT_TEMPLATE ==
  "- Return ONLY the full completed word (including the partial letters).\nLeft context: {{left}}\nCurrent partial word: {{partial}}\nRight context: {{right}}\nCompleted word:"

\* process.env.OLLAMA_MODEL ?? 'qwen2.5:0.5b-instruct'
DefaultModel ==
  IF call.OLLAMA_MODEL.kind = "string" THEN call.OLLAMA_MODEL.text
  ELSE "qwen2.5:0.5b-instruct"

\* DEFAULT_AUTOCOMPLETE_SETTINGS as the module evaluates it with this model.
DefaultsWith(model) ==
  [enabled |-> TRUE, model |-> model, temperature |-> 15, topP |-> 90,
   topK |-> 2000, repeatPenalty |-> 105, repeatLastN |-> 9600, presencePenalty |-> 20,
   frequencyPenalty |-> 20, numPredict |-> 2400, numCtx |-> 204800,
   firstTokenTimeoutMs |-> 90000, debounceMs |-> 9000, keepAlive |-> "30m",
   promptTemplate |-> DEFAULT_PROMPT_TEMPLATE, useSuffixContext |-> TRUE, mode |-> "word"]

DEFAULT_AUTOCOMPLETE_SETTINGS == DefaultsWith(DefaultModel)

NormalizeWith(raw, defaults) ==
  [enabled |-> normalizeBoolean(Field(raw, "enabled"), defaults.enabled),
   model |-> normalizeString(Field(raw, "model"), defaults.model),
   temperature |-> clampNumber(Field(raw, "temperature"), defaults.temperature, 0, 200),
   topP |-> clampNumber(Field(raw, "topP"), defaults.topP, 0, 100),
   topK |-> clampInteger(Field(raw, "topK"), defaults.topK, 100, 20000),
   repeatPenalty |-> clampNumber(Field(raw, "repeatPenalty"), defaults.repeatPenalty, 50, 200),
   repeatLastN |-> clampInteger(Field(raw, "repeatLastN"), defaults.repeatLastN, 0, 102400),
   presencePenalty |->
     clampNumber(Field(raw, "presencePenalty"), defaults.presencePenalty, -200, 200),
   frequencyPenalty |->
     clampNumber(Field(raw, "frequencyPenalty"), defaults.frequencyPenalty, -200, 200),
   numPredict |-> clampInteger(Field(raw, "numPredict"), defaults.numPredict, 100, 12800),
   numCtx |-> clampInteger(Field(raw, "numCtx"), defaults.numCtx, 25600, 819200),
   firstTokenTimeoutMs |->
     clampInteger(Field(raw, "firstTokenTimeoutMs"), defaults.firstTokenTimeoutMs,
                  20000, 2000000),
   debounceMs |-> clampInteger(Field(raw, "debounceMs"), defaults.debounceMs, 0, 200000),
   keepAlive |-> normalizeKeepAlive(Field(raw, "keepAlive"), defaults.keepAlive),
   promptTemplate |->
     normalizePromptTemplate(Field(raw, "promptTemplate"), defaults.promptTemplate),
   useSuffixContext |->
     normalizeBoolean(Field(raw, "useSuffixContext"), defaults.useSuffixContext),
   mode |-> normalizeMode(Field(raw, "mode"), defaults.mode)]

normalizeAutocompleteSettings(raw) == NormalizeWith(raw, DEFAULT_AUTOCOMPLETE_SETTINGS)

\* Normalized settings as the object the spread reads.
AsRaw(settings) ==
  [enabled |-> Bool(settings.enabled), model |-> Str(settings.model),
   temperature |-> Num(settings.temperature), topP |-> Num(settings.topP),
   topK |-> Num(settings.topK), repeatPenalty |-> Num(settings.repeatPenalty),
   repeatLastN |-> Num(settings.repeatLastN),
   presencePenalty |-> Num(settings.presencePenalty),
   frequencyPenalty |-> Num(settings.frequencyPenalty),
   numPredict |-> Num(settings.numPredict), numCtx |-> Num(settings.numCtx),
   firstTokenTimeoutMs |-> Num(settings.firstTokenTimeoutMs),
   debounceMs |-> Num(settings.debounceMs), keepAlive |-> Str(settings.keepAlive),
   promptTemplate |-> Str(settings.promptTemplate),
   useSuffixContext |-> Bool(settings.useSuffixContext), mode |-> Str(settings.mode)]

\* { ...base, ...updates }
Spread(base, updates) ==
  [name \in DOMAIN base \cup DOMAIN updates |->
     IF name \in DOMAIN updates THEN updates[name] ELSE base[name]]

mergeAutocompleteSettings(base, updates) ==
  normalizeAutocompleteSettings(Spread(AsRaw(base), updates))

\* The settings file is missing, or JSON.parse or the normalisation throws.
Unreadable == [readable |-> FALSE, parsed |-> <<>>]

Parsed(raw) == [readable |-> TRUE, parsed |-> raw]

loadAutocompleteSettings(file) ==
  IF file.readable THEN normalizeAutocompleteSettings(file.parsed)
  ELSE DEFAULT_AUTOCOMPLETE_SETTINGS

\* update-settings and reset-settings handlers run after the startup load
MaxOperations == 2

NumericFields ==
  {"temperature", "topP", "topK", "repeatPenalty", "repeatLastN", "presencePenalty",
   "frequencyPenalty", "numPredict", "numCtx", "firstTokenTimeoutMs", "debounceMs"}

\* The raw values a numeric field is given: far below and far above every
\* range, 2.5, a value that is not finite, null, and two strings.
RawNumbers == {Num(-9900), Num(9999900), Num(250), NotFinite, Null, Str("7"), Str("seven")}

\* The clamps of the merge test of the repository.
ClampedUpdates ==
  [topP |-> Num(9900), numCtx |-> Num(-1000), debounceMs |-> Num(-100),
   repeatLastN |-> Num(9999900), presencePenalty |-> Num(-9900),
   frequencyPenalty |-> Num(9900)]

\* The legacy template of the migration test, without its first two lines.
LegacyTemplate ==
  "- Return ONLY missing characters to finish the current partial word.\nCurrent partial word: {{partial}}\nContinuation:"

\* A template with the two labels of the older format, and one with only one
\* of them, as a user types it.
ContinuationTemplate == "Current partial word: {{partial}}\nContinuation:"

CustomTemplate == "  Word so far: {{partial}}\nContinuation:  "

\* The values a promptTemplate is given.
PromptTemplates ==
  {Str(LegacyTemplate), Str(ContinuationTemplate), Str(CustomTemplate),
   Str(DEFAULT_PROMPT_TEMPLATE), Str("  "), Num(100)}

\* Partial<AutocompleteSettings>: one field, none, or the fields of the test.
SettingsUpdates ==
  {[name \in {field} |-> value] : field \in NumericFields, value \in RawNumbers}
    \cup {[name \in {"mode"} |-> value] : value \in {Str("phrase"), Str("sentence"), Num(100)}}
    \cup {[name \in {"enabled"} |-> value] : value \in {Bool(FALSE), Str("no")}}
    \cup {[name \in {"promptTemplate"} |-> value] : value \in PromptTemplates}
    \cup {<<>>, ClampedUpdates}

StoredFiles ==
  {Unreadable, Parsed(<<>>), Parsed(ClampedUpdates), Parsed([numPredict |-> Num(250)]),
   Parsed([mode |-> Str("sentence"), topK |-> Str("seven")]),
   Parsed([promptTemplate |-> Str(LegacyTemplate)]),
   Parsed([promptTemplate |-> Str(CustomTemplate)])}

\* The main process before the startup load of the settings.
NotLoaded ==
  [fn |-> "settings", operation |-> "none", updates |-> <<>>, operations |-> 0,
   OLLAMA_MODEL |-> Undefined]

\* process.env.OLLAMA_MODEL: unset, or a name as the environment gives it
EnvModels == {Undefined, Str(" llama3 ")}

\* app.whenReady: the startup load of the settings file (main.ts).
LoadSettings(file) ==
  /\ call.fn = "settings"
  /\ call.operation = "none"
  /\ runtimeSettings' = loadAutocompleteSettings(file)
  /\ call' = [call EXCEPT !.operation = IF file.readable THEN "load" ELSE "load-failed",
                          !.updates = file.parsed]
  /\ UNCHANGED <<runtimeStats, requests, autocompleteControllers, uiVars>>

\* ipcMain.handle('autocomplete:update-settings'), up to the await of the save
UpdateSettings(updates) ==
  /\ call.fn = "settings"
  /\ call.operation # "none"
  /\ call.operations < MaxOperations
  /\ runtimeSettings' = mergeAutocompleteSettings(runtimeSettings, updates)
  /\ call' = [call EXCEPT !.operation = "update", !.updates = updates, !.operations = @ + 1]
  /\ UNCHANGED <<runtimeStats, requests, autocompleteControllers, uiVars>>

\* ipcMain.handle('autocomplete:reset-settings'), up to the await of the save
ResetSettings ==
  /\ call.fn = "settings"
  /\ call.operation # "none"
  /\ call.operations < MaxOperations
  /\ runtimeSettings' = DEFAULT_AUTOCOMPLETE_SETTINGS
  /\ call' = [call EXCEPT !.operation = "reset", !.updates = <<>>, !.operations = @ + 1]
  /\ UNCHANGED <<runtimeStats, requests, autocompleteControllers, uiVars>>

InitSettings ==
  /\ call \in {[NotLoaded EXCEPT !.OLLAMA_MODEL = model] : model \in EnvModels}
  /\ runtimeSettings = DEFAULT_AUTOCOMPLETE_SETTINGS
  /\ runtimeStats = [requestCount |-> 0, timeoutCount |-> 0, latencies |-> <<>>,
                     lastLatencyMs |-> NoLatency, recorded |-> 0]
  /\ requests = [r \in RequestIds |-> IdleRequest]
  /\ autocompleteControllers = [s \in Senders |-> NoController]
  /\ InitRenderer

NextSettings ==
  \/ \E file \in StoredFiles : LoadSettings(file)
  \/ \E updates \in SettingsUpdates : UpdateSettings(updates)
  \/ ResetSettings

SpecSettings == InitSettings /\ [][NextSettings]_vars

\* The fixed range of every numeric field, in hundredths, and whether the
\* field is an integer.
Ranges ==
  [temperature |-> [min |-> 0, max |-> 200, integer |-> FALSE],
   topP |-> [min |-> 0, max |-> 100, integer |-> FALSE],
   topK |-> [min |-> 100, max |-> 20000, integer |-> TRUE],
   repeatPenalty |-> [min |-> 50, max |-> 200, integer |-> FALSE],
   repeatLastN |-> [min |-> 0, max |-> 102400, integer |-> TRUE],
   presencePenalty |-> [min |-> -200, max |-> 200, integer |-> FALSE],
   frequencyPenalty |-> [min |-> -200, max |-> 200, integer |-> FALSE],
   numPredict |-> [min |-> 100, max |-> 12800, integer |-> TRUE],
   numCtx |-> [min |-> 25600, max |-> 819200, integer |-> TRUE],
   firstTokenTimeoutMs |-> [min |-> 20000, max |-> 2000000, integer |-> TRUE],
   debounceMs |-> [min |-> 0, max |-> 200000, integer |-> TRUE]]

InRange(settings) ==
  /\ \A field \in NumericFields :
       /\ settings[field] >= Ranges[field].min
       /\ settings[field] <= Ranges[field].max
       /\ Ranges[field].integer => settings[field] % 100 = 0
  /\ settings.mode \in {"word", "phrase"}

\* The update of this step gives the field a finite number.
UpdatesNumber(field) ==
  /\ call'.operation = "update"
  /\ call'.operations = call.operations + 1
  /\ field \in DOMAIN call'.updates
  /\ call'.updates[field].kind = "number"
  /\ call'.updates[field].finite

\* C20: after any sequence of the startup load, update-settings and
\* reset-settings with arbitrary inputs, every numeric field of the current
\* settings lies in its fixed range, the integer fields are integers and mode
\* is word or phrase; a number that an update gives below the range of its
\* field yields the minimum of the range, one above it the maximum.
C20_SettingsStayInRange ==
  /\ [](call.fn = "settings" => InRange(runtimeSettings))
  /\ [][\A field \in NumericFields :
          UpdatesNumber(field) =>
            /\ call'.updates[field].value < Ranges[field].min
                 => runtimeSettings'[field] = Ranges[field].min
            /\ call'.updates[field].value > Ranges[field].max
                 => runtimeSettings'[field] = Ranges[field].max]_vars

\* Two updates were made; numCtx was clamped to its minimum and topK rounded
\* from 2.5 to 3.
C20_Witness ==
  /\ call.fn = "settings"
  /\ call.operations = MaxOperations
  /\ runtimeSettings.numCtx = 25600
  /\ runtimeSettings.topK = 300

\* The current settings are a result of normalizeAutocompleteSettings.
Normalized == call.fn = "settings" /\ call.operation \in {"load", "update"}

\* C21: normalizeAutocompleteSettings is idempotent: normalizing its result
\* again gives the same settings, field by field; hence merging an empty
\* update into normalized settings leaves them unchanged.
C21_NormalizeIdempotent ==
  /\ [](Normalized => normalizeAutocompleteSettings(AsRaw(runtimeSettings)) = runtimeSettings)
  /\ [][(Normalized /\ call'.operation = "update" /\ call'.updates = <<>>
           /\ call'.operations = call.operations + 1)
          => runtimeSettings' = runtimeSettings]_vars

\* text matches a pattern of an obsolete prompt template
Obsolete(text) ==
  \/ Includes(text, "Return ONLY missing characters to finish the current partial word.")
  \/ Includes(text, "Continuation:") /\ Includes(text, "Current partial word:")

\* The update or the load of this step gives the prompt template a string.
GivesTemplate ==
  /\ call'.operation \in {"load", "update"}
  /\ call'.operation = "load" => call.operation = "none"
  /\ call'.operation = "update" => call'.operations = call.operations + 1
  /\ "promptTemplate" \in DOMAIN call'.updates
  /\ call'.updates.promptTemplate.kind = "string"

\* C22: after a merge or a load, a prompt template holding an obsolete phrase
\* is replaced by the default template, so the prompt template of the current
\* settings never matches an obsolete pattern; a template that matches none is
\* kept, trimmed, and the default template is not obsolete.
C22_ObsoleteTemplateReplaced ==
  /\ [](call.fn = "settings" => ~Obsolete(runtimeSettings.promptTemplate))
  /\ [](call.fn = "settings" => ~Obsolete(DEFAULT_AUTOCOMPLETE_SETTINGS.promptTemplate))
  /\ [][GivesTemplate =>
          LET given == call'.updates.promptTemplate.text
          IN /\ Obsolete(given) =>
                  runtimeSettings'.promptTemplate = DEFAULT_AUTOCOMPLETE_SETTINGS.promptTemplate
             /\ (~Obsolete(given) /\ Trim(given) # "") =>
                  runtimeSettings'.promptTemplate = Trim(given)]_vars

\* A custom template was set and the legacy template of the older format was
\* then given: the current template is the default one.
C22_Witness ==
  /\ call.fn = "settings"
  /\ call.operation = "update"
  /\ call.operations = MaxOperations
  /\ call.updates = [name \in {"promptTemplate"} |-> Str(ContinuationTemplate)]
  /\ runtimeSettings.promptTemplate = DEFAULT_PROMPT_TEMPLATE

\* ---- Persistence of the settings (saveAutocompleteSettings, main.ts) ----

\* update-settings and reset-settings invocations in flight at once
NumHandlers == 2

\* invocations started in one run
MaxSaves == 3

\* starts of the application after a crash
MaxRestarts == 1

Handlers == 1..NumHandlers

\* No file at a path, no descriptor in a handler.
NoFile == 0

\* A file that open(path, 'w') created or truncated and nothing was written to.
EmptyFile == [complete |-> FALSE, settings |-> <<>>]

\* JSON.stringify(settings, null, 2) + '\n', written whole.
Payload(settings) == [complete |-> TRUE, settings |-> settings]

IdleHandler == [pc |-> "idle", settings |-> <<>>, fd |-> NoFile]

Persisting == call.fn = "persist"

\* What loadAutocompleteSettings reads at the settings path: a missing file
\* and a payload that JSON.parse rejects both throw.
FileAtSettingsPath ==
  IF call.settingsPath = NoFile THEN Unreadable
  ELSE IF call.inodes[call.settingsPath].complete
    THEN Parsed(AsRaw(call.inodes[call.settingsPath].settings))
  ELSE Unreadable

PersistUpdates == {[name \in {"mode"} |-> Str("phrase")], [name \in {"enabled"} |-> Bool(FALSE)]}

\* ipcMain.handle('autocomplete:update-settings'): the merge, the assignment
\* and the call of saveAutocompleteSettings, up to its first await.
UpdateAndSave(h, updates) ==
  /\ Persisting
  /\ ~call.crashed
  /\ call.handlers[h].pc = "idle"
  /\ call.started < MaxSaves
  /\ runtimeSettings' = mergeAutocompleteSettings(runtimeSettings, updates)
  /\ call' = [call EXCEPT !.handlers[h] = [pc |-> "mkdir", settings |-> runtimeSettings',
                                           fd |-> NoFile],
                          !.started = @ + 1]
  /\ UNCHANGED <<runtimeStats, requests, autocompleteControllers, uiVars>>

\* ipcMain.handle('autocomplete:reset-settings'), up to the first await.
ResetAndSave(h) ==
  /\ Persisting
  /\ ~call.crashed
  /\ call.handlers[h].pc = "idle"
  /\ call.started < MaxSaves
  /\ runtimeSettings' = DEFAULT_AUTOCOMPLETE_SETTINGS
  /\ call' = [call EXCEPT !.handlers[h] = [pc |-> "mkdir", settings |-> runtimeSettings',
                                           fd |-> NoFile],
                          !.started = @ + 1]
  /\ UNCHANGED <<runtimeStats, requests, autocompleteControllers, uiVars>>

\* await fs.mkdir(path.dirname(settingsPath), { recursive: true })
Mkdir(h) ==
  /\ Persisting
  /\ call.handlers[h].pc = "mkdir"
  /\ call' = [call EXCEPT !.handlers[h].pc = "open"]
  /\ UNCHANGED <<mainVars, uiVars>>

\* fs.writeFile(tempPath, payload): the open with flag 'w' creates the file
\* at settingsPath + '.tmp' or truncates the one that is there.
OpenTemp(h) ==
  /\ Persisting
  /\ call.handlers[h].pc = "open"
  /\ call' =
       IF call.tempPath = NoFile
         THEN [call EXCEPT !.inodes = Append(@, EmptyFile),
                           !.tempPath = Len(call.inodes) + 1,
                           !.handlers[h].fd = Len(call.inodes) + 1,
                           !.handlers[h].pc = "write"]
       ELSE [call EXCEPT !.inodes[call.tempPath] = EmptyFile,
                         !.handlers[h].fd = call.tempPath,
                         !.handlers[h].pc = "write"]
  /\ UNCHANGED <<mainVars, uiVars>>

\* fs.writeFile(tempPath, payload): the write to the open descriptor, and
\* the close.
WriteTemp(h) ==
  /\ Persisting
  /\ call.handlers[h].pc = "write"
  /\ call' = [call EXCEPT !.inodes[call.handlers[h].fd] = Payload(call.handlers[h].settings),
                          !.handlers[h].fd = NoFile,
                          !.handlers[h].pc = "rename"]
  /\ UNCHANGED <<mainVars, uiVars>>

\* await fs.rename(tempPath, settingsPath); without a file at tempPath the
\* rename rejects and so does the handler.
RenameTemp(h) ==
  /\ Persisting
  /\ call.handlers[h].pc = "rename"
  /\ call' =
       IF call.tempPath = NoFile
         THEN [call EXCEPT !.handlers[h] = IdleHandler, !.rejected = @ + 1]
       ELSE [call EXCEPT !.settingsPath = call.tempPath,
                         !.tempPath = NoFile,
                         !.handlers[h] = IdleHandler]
  /\ UNCHANGED <<mainVars, uiVars>>

\* The process ends at any step; the files stay as they are.
Crash ==
  /\ Persisting
  /\ ~call.crashed
  /\ call.restarts < MaxRestarts
  /\ call' = [call EXCEPT !.crashed = TRUE, !.handlers = [h \in Handlers |-> IdleHandler]]
  /\ UNCHANGED <<mainVars, uiVars>>

\* app.whenReady of the next run: the startup load of the settings file.
Restart ==
  /\ Persisting
  /\ call.crashed
  /\ runtimeSettings' = loadAutocompleteSettings(FileAtSettingsPath)
  /\ call' = [call EXCEPT !.crashed = FALSE, !.restarts = @ + 1]
  /\ UNCHANGED <<runtimeStats, requests, autocompleteControllers, uiVars>>

\* The settings path holds no file, or the payload of an earlier run.
InitialFiles ==
  {[inodes |-> <<>>, settingsPath |-> NoFile],
   [inodes |-> <<Payload([DefaultsWith("qwen2.5:0.5b-instruct") EXCEPT !.mode = "phrase"])>>,
    settingsPath |-> 1]}

InitPersistence ==
  /\ call \in {[fn |-> "persist", OLLAMA_MODEL |-> Undefined,
                handlers |-> [h \in Handlers |-> IdleHandler],
                inodes |-> files.inodes, settingsPath |-> files.settingsPath,
                tempPath |-> NoFile, started |-> 0, rejected |-> 0,
                crashed |-> FALSE, restarts |-> 0] : files \in InitialFiles}
  /\ runtimeSettings = loadAutocompleteSettings(FileAtSettingsPath)
  /\ runtimeStats = [requestCount |-> 0, timeoutCount |-> 0, latencies |-> <<>>,
                     lastLatencyMs |-> NoLatency, recorded |-> 0]
  /\ requests = [r \in RequestIds |-> IdleRequest]
  /\ autocompleteControllers = [s \in Senders |-> NoController]
  /\ InitRenderer

NextPersistence ==
  \/ \E h \in Handlers, updates \in PersistUpdates : UpdateAndSave(h, updates)
  \/ \E h \in Handlers : ResetAndSave(h)
  \/ \E h \in Handlers : Mkdir(h)
  \/ \E h \in Handlers : OpenTemp(h)
  \/ \E h \in Handlers : WriteTemp(h)
  \/ \E h \in Handlers : RenameTemp(h)
  \/ Crash
  \/ Restart

SpecPersistence == InitPersistence /\ [][NextPersistence]_vars

\* C23: at every point of any sequence of update and reset handlers, handlers
\* that overlap and a crash at any step included, the file at the settings
\* path is absent or holds the complete payload of one saved settings value.
C23_SettingsFileAtomic ==
  Persisting =>
    \/ call.settingsPath = NoFile
    \/ call.inodes[call.settingsPath].complete

(***************************************************************************)
(* The functions of the renderer and of the context extractor on their     *)
(* own, applied to a text and a cursor index that is any number.           *)
(***************************************************************************)
\* Math.ceil, for a number in hundredths.
MathCeil(hundredths) ==
  IF hundredths >= 0 THEN (hundredths + 99) \div 100 ELSE -((-hundredths) \div 100)

\* Math.trunc, for a number in hundredths.
MathTrunc(hundredths) ==
  IF hundredths >= 0 THEN hundredths \div 100 ELSE -((-hundredths) \div 100)

\* Number.isFinite(cursorIndex) ? Math.trunc(cursorIndex) : text.length, the
\* integer that is then clamped.
CursorNumber(text, cursorIndex) ==
  IF cursorIndex.kind = "number" /\ cursorIndex.finite THEN MathTrunc(cursorIndex.value)
  ELSE Len(text)

RECURSIVE Repeat(_, _)
Repeat(piece, times) == IF times = 0 THEN "" ELSE piece \o Repeat(piece, times - 1)

\* A text longer than both context windows together, of few words.
LongText == Repeat("it's-so-far-off-and-so-it-goes ", 11)

ContextTexts == {"", "too far", "it's so-so", "a  b'", LongText}

\* Cursor indices: negative, fractional, inside and past the texts, in
\* hundredths, and NaN or an infinity.
CursorIndices ==
  {Num(-100), Num(-50), Num(0), Num(250), Num(300), Num(400), Num(700), Num(1050),
   Num(20000), Num(21050), Num(33600), Num(99900), NotFinite}

ContextCalls ==
  [fn : {"extractWordContext"}, text : ContextTexts, cursorIndex : CursorIndices,
   returned : {FALSE}, result : {extractWordContext("", 0)}]

CallExtractWordContext ==
  /\ call.fn = "extractWordContext"
  /\ ~call.returned
  /\ call' = [call EXCEPT !.returned = TRUE,
                          !.result = extractWordContext(call.text,
                                                        CursorNumber(call.text,
                                                                     call.cursorIndex))]
  /\ UNCHANGED <<mainVars, uiVars>>

\* No text of a corpus has more words than this.
MaxTokens == 7

\* The corpora of the tests of the repository, one with ties in the score,
\* one where the bigram outweighs the frequency, one of words with an
\* apostrophe and a hyphen, and none.
Corpora ==
  {<<"man went too far", "too fast to fail", "run far away">>,
   <<"Man went too fto go too far">>,
   <<"very very fast">>,
   <<"fat fan far", "Fan; FAT, far!">>,
   <<"too far", "fast fast fast">>,
   <<"o'k o-k", "it's its">>,
   <<>>}

\* The text and the cursor index of a local completion request.
LocalCursors ==
  {[text |-> "man went too f", cursorIndex |-> Num(1400)],
   [text |-> "man went too ", cursorIndex |-> Num(1300)],
   [text |-> "Man went too fto go too far", cursorIndex |-> Num(1400)],
   [text |-> "Man went too fto go too far", cursorIndex |-> Num(1650)],
   [text |-> "very v", cursorIndex |-> NotFinite],
   [text |-> "too FA", cursorIndex |-> Num(99900)],
   [text |-> "fa", cursorIndex |-> Num(250)],
   [text |-> "far", cursorIndex |-> Num(200)],
   [text |-> "far", cursorIndex |-> Num(-100)],
   [text |-> "o", cursorIndex |-> Num(100)],
   [text |-> "it", cursorIndex |-> Num(200)],
   [text |-> "", cursorIndex |-> Num(0)]}

LocalCalls ==
  {[fn |-> "suggestLocalCompletion", texts |-> texts, text |-> at.text,
    cursorIndex |-> at.cursorIndex, mode |-> mode, returned |-> FALSE, result |-> ""] :
     texts \in Corpora, at \in LocalCursors, mode \in {"word", "phrase"}}

CallSuggestLocalCompletion ==
  /\ call.fn = "suggestLocalCompletion"
  /\ ~call.returned
  /\ call' = [call EXCEPT !.returned = TRUE,
                          !.result = suggestLocalCompletion(call.texts, call.text,
                                                            CursorNumber(call.text,
                                                                         call.cursorIndex),
                                                            call.mode)]
  /\ UNCHANGED <<mainVars, uiVars>>

InsertionCalls ==
  [fn : {"insertCompletionAtCursor"}, text : {"", "too f", "it's so"},
   cursorIndex : CursorIndices, completion : {"", "ar", "n't "},
   returned : {FALSE}, result : {[nextText |-> "", nextCursorIndex |-> 0]}]

CallInsertCompletionAtCursor ==
  /\ call.fn = "insertCompletionAtCursor"
  /\ ~call.returned
  /\ call' = [call EXCEPT !.returned = TRUE,
                          !.result = insertCompletionAtCursor(call.text,
                                                              CursorNumber(call.text,
                                                                           call.cursorIndex),
                                                              call.completion)]
  /\ UNCHANGED <<mainVars, uiVars>>

\* Texts for extractPartial: those of the context extractor but the long one,
\* a text with capitals, and texts with a letter that only toLowerCase turns
\* into a word character.
PartialTexts ==
  (ContextTexts \ {LongText})
    \cup {"O'Neil-Mc is", KelvinSign \o "elvin x", "2" \o KelvinSign \o " is"}

PartialCalls ==
  [fn : {"extractPartial"}, text : PartialTexts, cursorIndex : CursorIndices,
   returned : {FALSE}, result : {extractPartial("", 0)}]

CallExtractPartial ==
  /\ call.fn = "extractPartial"
  /\ ~call.returned
  /\ call' = [call EXCEPT !.returned = TRUE,
                          !.result = extractPartial(call.text,
                                                    CursorNumber(call.text, call.cursorIndex))]
  /\ UNCHANGED <<mainVars, uiVars>>

FunctionCalls == ContextCalls \cup LocalCalls \cup InsertionCalls \cup PartialCalls

InitFunctions ==
  /\ InitIdle
  /\ call \in FunctionCalls

NextFunctions ==
  \/ CallExtractWordContext
  \/ CallSuggestLocalCompletion
  \/ CallInsertCompletionAtCursor
  \/ CallExtractPartial

SpecFunctions == InitFunctions /\ [][NextFunctions]_vars

\* The cursor the claims speak of: truncated and clamped to [0, length],
\* the length when the index is not finite.
ClaimedCursor(text, cursorIndex) ==
  IF ~cursorIndex.finite THEN Len(text)
  ELSE IF cursorIndex.value < 0 THEN 0
  ELSE IF cursorIndex.value >= Len(text) * 100 THEN Len(text)
  ELSE CHOOSE c \in 0..Len(text) : c * 100 <= cursorIndex.value /\ cursorIndex.value < (c + 1) * 100

\* run is the maximal run of word characters of text that ends at position c
MaximalRunEndingAt(text, c, run) ==
  \E start \in 0..c :
     /\ run = SubSeq(text, start + 1, c)
     /\ \A i \in (start + 1)..c : Ch(text, i) \in WordChars
     /\ start = 0 \/ Ch(text, start) \notin WordChars

\* run is the maximal run of word characters of text that starts after position c
MaximalRunStartingAt(text, c, run) ==
  \E end \in c..Len(text) :
     /\ run = SubSeq(text, c + 1, end)
     /\ \A i \in (c + 1)..end : Ch(text, i) \in WordChars
     /\ end = Len(text) \/ Ch(text, end + 1) \notin WordChars

ContextAsClaimed(text, c, context) ==
  /\ MaximalRunEndingAt(text, c, context.partialWord)
  /\ MaximalRunStartingAt(text, c, context.rightWordRemainder)
  /\ Len(context.leftContext) = Min(c, MAX_LEFT_CONTEXT)
  /\ context.leftContext = SubSeq(text, c - Len(context.leftContext) + 1, c)
  /\ Len(context.rightContext) = Min(Len(text) - c, MAX_RIGHT_CONTEXT)
  /\ context.rightContext = SubSeq(text, c + 1, c + Len(context.rightContext))

\* C24: for every text and cursor index (truncated and clamped to
\* [0, text.length], a value that is not finite taken as text.length),
\* partialWord is the maximal run of [A-Za-z'-] ending at the cursor,
\* rightWordRemainder the maximal such run starting at it, leftContext the at
\* most 200 characters before the cursor and rightContext the at most 120
\* after it.
C24_ContextAroundCursor ==
  (call.fn = "extractWordContext" /\ call.returned) =>
    ContextAsClaimed(call.text, ClaimedCursor(call.text, call.cursorIndex), call.result)

\* The long text with the cursor at 210.5: both windows are cut, and the
\* cursor is inside a word.
C24_Witness ==
  /\ call.fn = "extractWordContext"
  /\ call.returned
  /\ call.text = LongText
  /\ call.cursorIndex = Num(21050)
  /\ Len(call.result.leftContext) = MAX_LEFT_CONTEXT
  /\ Len(call.result.rightContext) = MAX_RIGHT_CONTEXT
  /\ call.result.partialWord # ""
  /\ call.result.rightWordRemainder # ""

\* suggestLocalCompletion has returned for a request in this mode.
LocalReturned(mode) ==
  call.fn = "suggestLocalCompletion" /\ call.returned /\ call.mode = mode

\* The character before the cursor is no word character: the partial word is empty.
NoPartialAt(text, c) == c = 0 \/ Ch(text, c) \notin WordChars

\* C25: suggestLocalCompletion returns the empty string for every request in
\* phrase mode, and in word mode whenever the partial word at the cursor is
\* empty.
C25_LocalEmptyWithoutWord ==
  /\ LocalReturned("phrase") => call.result = ""
  /\ (LocalReturned("word") /\ NoPartialAt(call.text, ClaimedCursor(call.text, call.cursorIndex)))
       => call.result = ""

\* Word mode, a corpus with words, the cursor after a space.
C25_Witness ==
  /\ LocalReturned("word")
  /\ call.texts = <<"man went too far", "too fast to fail", "run far away">>
  /\ call.text = "man went too "
  /\ call.result = ""

\* The words of the corpus, lower-cased.
CorpusWords(texts) ==
  UNION {{tokenize(texts[i])[k] : k \in 1..Len(tokenize(texts[i]))} : i \in 1..Len(texts)}

\* suffix completes the partial word that ends at position c of text as the
\* rules of the validator ask.
SuffixAcceptable(texts, text, c, suffix) ==
  \E start \in 0..c, end \in c..Len(text) :
     /\ MaximalRunEndingAt(text, c, SubSeq(text, start + 1, c))
     /\ MaximalRunStartingAt(text, c, SubSeq(text, c + 1, end))
     /\ ToLower(SubSeq(text, start + 1, c)) \o suffix \in CorpusWords(texts)
     /\ ToLower(SubSeq(text, start + 1, c)) \o suffix # ToLower(SubSeq(text, start + 1, c))
     /\ ToLower(SubSeq(text, start + 1, c)) \o suffix
          # ToLower(Last(WordTokens(SubSeq(text, 1, start))))
     /\ \A i \in 1..Len(suffix) : Ch(suffix, i) \in (Letters \ UpperLetters) \cup {"'", "-"}
     /\ ToLower(suffix) # ToLower(SubSeq(text, c + 1, end))

\* C26: every non-empty suffix s that suggestLocalCompletion returns in word
\* mode passes the rules of the remote validator: the lower-cased partial
\* word followed by s is a word of the corpus, different from the partial
\* word and from the previous word; s holds only characters of [a-z'-]; and s
\* differs case-insensitively from the word remainder right of the cursor.
\* With the cursor in f|to it does not return to.
C26_LocalSuffixAcceptable ==
  /\ (LocalReturned("word") /\ call.result # "")
       => SuffixAcceptable(call.texts, call.text,
                           ClaimedCursor(call.text, call.cursorIndex), call.result)
  /\ (LocalReturned("word") /\ call.text = "Man went too fto go too far"
        /\ call.cursorIndex = Num(1400))
       => call.result # "to"

\* The corpus and the text of the join test, the cursor in f|to: fto is a
\* word of the corpus, and the suffix returned is that of far.
C26_Witness ==
  /\ LocalReturned("word")
  /\ call.texts = <<"Man went too fto go too far">>
  /\ call.text = "Man went too fto go too far"
  /\ call.cursorIndex = Num(1400)
  /\ call.result = "ar"

\* How often word occurs in the corpus, and how often right after previous.
Occurrences(texts, word) ==
  Cardinality({<<i, k>> \in (1..Len(texts)) \X (1..MaxTokens) :
                 k <= Len(tokenize(texts[i])) /\ tokenize(texts[i])[k] = word})

Successions(texts, previous, word) ==
  Cardinality({<<i, k>> \in (1..Len(texts)) \X (2..MaxTokens) :
                 /\ k <= Len(tokenize(texts[i]))
                 /\ tokenize(texts[i])[k - 1] = previous
                 /\ tokenize(texts[i])[k] = word})

ClaimedScore(texts, previous, word) ==
  5 * Successions(texts, previous, word) + Occurrences(texts, word)

\* The candidates that survive the filters.
Survivors(texts, partial, previous, remainder) ==
  {word \in CorpusWords(texts) :
     /\ StartsWith(word, partial)
     /\ word # partial
     /\ word # previous
     /\ ToLower(SubSeq(word, Len(partial) + 1, Len(word))) # ToLower(remainder)}

\* The place of a character among the UTF-16 code units.
CodeUnit(c) ==
  IF c = "'" THEN 39
  ELSE IF c = "-" THEN 45
  ELSE 96 + (CHOOSE i \in 1..26 : Ch(LowerAlphabet, i) = c)

\* The place of a character in the collation: hyphen, apostrophe, letters.
Collation(c) ==
  IF c = "-" THEN 1
  ELSE IF c = "'" THEN 2
  ELSE 2 + (CHOOSE i \in 1..26 : Ch(LowerAlphabet, i) = c)

\* a comes before b in the lexicographic order of the ranks Rank
LexicographicallyLess(a, b, Rank(_)) ==
  \E i \in 1..(Len(a) + 1) :
     /\ SubSeq(a, 1, i - 1) = SubSeq(b, 1, Min(i - 1, Len(b)))
     /\ \/ i = Len(a) + 1 /\ Len(b) > Len(a)
        \/ i <= Len(a) /\ i <= Len(b) /\ Rank(Ch(a, i)) < Rank(Ch(b, i))

\* result is the suffix of the survivor of the highest score, ties broken by
\* the lexicographic order of Rank, and empty without a survivor.
SuffixOfTop(texts, partial, previous, survivors, result, Rank(_)) ==
  IF survivors = {} THEN result = ""
  ELSE \E word \in survivors :
         /\ result = SubSeq(word, Len(partial) + 1, Len(word))
         /\ \A other \in survivors \ {word} :
               \/ ClaimedScore(texts, previous, word) > ClaimedScore(texts, previous, other)
               \/ /\ ClaimedScore(texts, previous, word) = ClaimedScore(texts, previous, other)
                  /\ LexicographicallyLess(word, other, Rank)

RankedAt(texts, text, c, result, Rank(_)) ==
  \E start \in 0..c, end \in c..Len(text) :
     /\ MaximalRunEndingAt(text, c, SubSeq(text, start + 1, c))
     /\ MaximalRunStartingAt(text, c, SubSeq(text, c + 1, end))
     /\ start < c =>
          SuffixOfTop(texts, ToLower(SubSeq(text, start + 1, c)),
                      ToLower(Last(WordTokens(SubSeq(text, 1, start)))),
                      Survivors(texts, ToLower(SubSeq(text, start + 1, c)),
                                ToLower(Last(WordTokens(SubSeq(text, 1, start)))),
                                SubSeq(text, c + 1, end)),
                      result, Rank)

C27_WitnessBigram ==
  /\ LocalReturned("word")
  /\ call.texts = <<"too far", "fast fast fast">>
  /\ call.text = "too FA"
  /\ call.result = "r"

\* insertion is completion put into text at position c.
InsertedAt(text, c, completion, insertion) ==
  /\ insertion.nextText = SubSeq(text, 1, c) \o completion \o SubSeq(text, c + 1, Len(text))
  /\ insertion.nextCursorIndex = c + Len(completion)
  /\ SubSeq(insertion.nextText, 1, insertion.nextCursorIndex - Len(completion))
       \o SubSeq(insertion.nextText, insertion.nextCursorIndex + 1, Len(insertion.nextText))
       = text

\* C28: insertCompletionAtCursor(text, cursor, completion) returns nextText =
\* text[0..c) + completion + text[c..) and nextCursorIndex = c +
\* length(completion), c being the cursor truncated and clamped to
\* [0, length(text)], length(text) when it is not finite; removing the
\* inserted span from nextText gives text back.
C28_InsertionAtCursor ==
  (call.fn = "insertCompletionAtCursor" /\ call.returned) =>
    InsertedAt(call.text, ClaimedCursor(call.text, call.cursorIndex), call.completion,
               call.result)

\* A completion put inside the text at the fractional cursor 2.5.
C28_Witness ==
  /\ call.fn = "insertCompletionAtCursor"
  /\ call.returned
  /\ call.text = "it's so"
  /\ call.cursorIndex = Num(250)
  /\ call.completion = "n't "
  /\ call.result = [nextText |-> "itn't 's so", nextCursorIndex |-> 6]

(***************************************************************************)
(* The debounced saver on its own (lib/debounce.ts): the Map of the timers *)
(* per key, the timeouts that setTimeout holds, and the calls of the saver.*)
(***************************************************************************)
\* createDebouncedPerKeySaver(250, ...)
delayMs == 250

\* what the clock advances by in one step
SaverTimeStep == 125

\* the clock stops here
MaxSaverTime == 500

\* calls of scheduleSave, cancelSave and flushSave in one behaviour
MaxSaverCalls == 3

SaverKeys == ItemIds

SaverTexts == {"pending", "final"}

\* timers.get(key) of a key without a timer
NoTimeout == 0

Saving == call.fn = "saver"

\* One call of the saver or of a function of the controller, as it happened.
SaverEvent(op, key, text, from) ==
  [op |-> op, key |-> key, text |-> text, at |-> call.now, from |-> from]

\* A cancelSave that leaves the timeout pending.
TimeoutsKept(key) == call.timeouts

\* cancelSave(key): clearTimeout(timers.get(key)) on the pending timeouts
TimeoutsAfterCancel(key) == {timeout \in call.timeouts : timeout.id # call.map[key]}

\* A timeout due at once.
DueNow(now) == now

\* setTimeout(..., delayMs)
DueAt(now) == now + delayMs

ScheduleSave(key, text) ==
  /\ Saving
  /\ call.calls < MaxSaverCalls
  /\ DueAt(call.now) <= MaxSaverTime
  /\ timers' = scheduleSave(timers, key, text)
  /\ call' = [call EXCEPT
                !.timeouts = TimeoutsAfterCancel(key)
                               \cup {[id |-> call.calls + 1, key |-> key, text |-> text,
                                      due |-> DueAt(call.now)]},
                !.map[key] = call.calls + 1,
                !.log = Append(@, SaverEvent("scheduleSave", key, text, "")),
                !.calls = @ + 1]
  /\ UNCHANGED <<mainVars, items, suggestion, autocompleteTimerRef,
                 autocompleteRequestVersionRef, autocompleteSettings, autocompleteHealth,
                 pendingSuggests, lastEvent>>

CancelSave(key) ==
  /\ Saving
  /\ call.calls < MaxSaverCalls
  /\ timers' = cancelSave(timers, key)
  /\ call' = [call EXCEPT
                !.timeouts = TimeoutsAfterCancel(key),
                !.map[key] = NoTimeout,
                !.log = Append(@, SaverEvent("cancelSave", key, "", "")),
                !.calls = @ + 1]
  /\ UNCHANGED <<mainVars, items, suggestion, autocompleteTimerRef,
                 autocompleteRequestVersionRef, autocompleteSettings, autocompleteHealth,
                 pendingSuggests, lastEvent>>

\* flushSave(key, text), up to the call of the saver
FlushSave(key, text) ==
  /\ Saving
  /\ call.calls < MaxSaverCalls
  /\ timers' = cancelSave(timers, key)
  /\ call' = [call EXCEPT
                !.timeouts = TimeoutsAfterCancel(key),
                !.map[key] = NoTimeout,
                !.log = @ \o <<SaverEvent("flushSave", key, text, ""),
                               SaverEvent("saver", key, text, "flushSave")>>,
                !.calls = @ + 1]
  /\ UNCHANGED <<mainVars, items, suggestion, autocompleteTimerRef,
                 autocompleteRequestVersionRef, autocompleteSettings, autocompleteHealth,
                 pendingSuggests, lastEvent>>

\* The callback of a timeout, up to the call of the saver.
TimeoutFires(timeout) ==
  /\ Saving
  /\ timeout \in call.timeouts
  /\ timeout.due <= call.now
  /\ timers' = cancelSave(timers, timeout.key)
  /\ call' = [call EXCEPT
                !.timeouts = @ \ {timeout},
                !.map[timeout.key] = NoTimeout,
                !.log = Append(@, SaverEvent("saver", timeout.key, timeout.text, "timer"))]
  /\ UNCHANGED <<mainVars, items, suggestion, autocompleteTimerRef,
                 autocompleteRequestVersionRef, autocompleteSettings, autocompleteHealth,
                 pendingSuggests, lastEvent>>

\* Time passes; a timeout may fire later than it is due.
SaverTick ==
  /\ Saving
  /\ call.now + SaverTimeStep <= MaxSaverTime
  /\ call' = [call EXCEPT !.now = @ + SaverTimeStep]
  /\ UNCHANGED <<mainVars, uiVars>>

InitSaver ==
  /\ InitIdle
  /\ runtimeSettings.enabled
  /\ runtimeSettings.mode = "word"
  /\ call = [fn |-> "saver", now |-> 0, timeouts |-> {},
             map |-> [key \in SaverKeys |-> NoTimeout], log |-> <<>>, calls |-> 0]

NextSaver ==
  \/ \E key \in SaverKeys, text \in SaverTexts : ScheduleSave(key, text)
  \/ \E key \in SaverKeys : CancelSave(key)
  \/ \E key \in SaverKeys, text \in SaverTexts : FlushSave(key, text)
  \/ \E timeout \in call.timeouts : TimeoutFires(timeout)
  \/ SaverTick

\* The event loop runs the callback of a due timeout, and time passes.
SpecSaver ==
  /\ InitSaver
  /\ [][NextSaver]_vars
  /\ WF_vars(SaverTick)
  /\ WF_vars(\E timeout \in call.timeouts : TimeoutFires(timeout))

\* The events of the log at positions from..to that concern key.
OnKey(key, from, to) == {k \in from..to : call.log[k].key = key}

\* The call of the saver at position j of the log is that of a timer.
SavedByTimer(j) == call.log[j].op = "saver" /\ call.log[j].from = "timer"

\* The call of the saver at position j ends the burst whose last
\* scheduleSave is at position i.
EndsBurst(i, j) ==
  /\ call.log[i].op = "scheduleSave"
  /\ call.log[i].key = call.log[j].key
  /\ call.log[i].text = call.log[j].text
  /\ call.log[j].at >= call.log[i].at + delayMs
  /\ OnKey(call.log[j].key, i + 1, j - 1) = {}

\* C29: for each key, whatever happens on the other keys: after a burst of
\* scheduleSave calls on the key the saver is invoked once for the burst, with
\* the text of the last call and not before the delay has passed since that
\* call; at most one timer is pending per key; and a pending timer does not
\* stay pending for ever.
C29_SavesOncePerBurst ==
  /\ [](Saving =>
          /\ \A j \in 1..Len(call.log) :
                SavedByTimer(j) => \E i \in 1..(j - 1) : EndsBurst(i, j)
          /\ \A key \in SaverKeys :
                Cardinality({timeout \in call.timeouts : timeout.key = key}) <= 1)
  /\ \A key \in SaverKeys :
        (Saving /\ call.map[key] # NoTimeout) ~> (Saving /\ call.map[key] = NoTimeout)

\* The burst of the test: three calls on one key, then one call of the
\* saver, with the text of the third.
C29_Witness ==
  /\ Saving
  /\ Len(call.log) = MaxSaverCalls + 1
  /\ \A k \in 1..MaxSaverCalls : call.log[k].op = "scheduleSave" /\ call.log[k].key = 1
  /\ call.log[1].text # call.log[MaxSaverCalls].text
  /\ SavedByTimer(MaxSaverCalls + 1)
  /\ call.log[MaxSaverCalls + 1].text = call.log[MaxSaverCalls].text

\* The call of the saver that flushSave makes follows it in the log, with
\* the same key and text and at the same time.
SavedAtOnce(j) ==
  /\ j + 1 <= Len(call.log)
  /\ call.log[j + 1] = [call.log[j] EXCEPT !.op = "saver", !.from = "flushSave"]

\* A timer that saves on the key of the flush at position j was scheduled
\* after the flush.
ScheduledAfter(j, k) ==
  \E i \in (j + 2)..(k - 1) :
     call.log[i].op = "scheduleSave" /\ call.log[i].key = call.log[j].key

\* C30: flushSave(key, text) cancels the pending timer of the key and invokes
\* the saver at once with the text given; a text that was scheduled and not
\* yet saved at the flush is never passed to the saver afterwards.
C30_FlushCancelsPending ==
  Saving =>
    /\ \A j \in 1..Len(call.log) :
          call.log[j].op = "flushSave" =>
            /\ SavedAtOnce(j)
            /\ \A k \in (j + 2)..Len(call.log) :
                  (SavedByTimer(k) /\ call.log[k].key = call.log[j].key) => ScheduledAfter(j, k)
    /\ (call.log # <<>> /\ call.log[Len(call.log)].from = "flushSave") =>
          /\ call.map[call.log[Len(call.log)].key] = NoTimeout
          /\ \A timeout \in call.timeouts : timeout.key # call.log[Len(call.log)].key

\* The test of the flush: a text is scheduled, another is flushed, and the
\* delay of the scheduled one has passed without a call of the saver for it.
C30_Witness ==
  /\ Saving
  /\ Len(call.log) = 3
  /\ call.log[1].op = "scheduleSave"
  /\ call.log[2].op = "flushSave"
  /\ call.log[2].key = call.log[1].key
  /\ call.log[2].text # call.log[1].text
  /\ call.log[3].op = "saver"
  /\ call.now >= call.log[1].at + delayMs + SaverTimeStep
  /\ call.timeouts = {}

(***************************************************************************)
(* Health and telemetry of the main process (autocomplete.ts):             *)
(* getAutocompleteHealth with its two probes, and the latency window as    *)
(* the requests that return early fill it.                                 *)
(***************************************************************************)
\* early returns of suggestAutocomplete in one behaviour
MaxPushes == 3

\* The k-th smallest of values: [...values].sort((a, b) => a - b)[k - 1]
KthSmallest(values, k) ==
  CHOOSE v \in {values[i] : i \in 1..Len(values)} :
    /\ Cardinality({i \in 1..Len(values) : values[i] < v}) < k
    /\ Cardinality({i \in 1..Len(values) : values[i] <= v}) >= k

\* Math.round((a + b) / 2) for two latencies
RoundedMean(a, b) == (a + b + 1) \div 2

median(values) ==
  IF Len(values) = 0 THEN NoLatency
  ELSE IF Len(values) % 2 = 0
    THEN RoundedMean(KthSmallest(values, Len(values) \div 2),
                     KthSmallest(values, Len(values) \div 2 + 1))
  ELSE KthSmallest(values, Len(values) \div 2 + 1)

getAutocompleteConfig == [enabled |-> runtimeSettings.enabled, model |-> runtimeSettings.model]

\* extractModelNames(body), as the set its caller builds from it; an entry
\* without a name is "".
extractModelNames(body) == {body.models[i] : i \in 1..Len(body.models)} \ {""}

\* A listing in which any model counts as the configured one.
AnyModelListed(config, body) == extractModelNames(body) # {}

\* availableModels.has(config.model)
ModelListed(config, body) == config.model \in extractModelNames(body)

\* What GET /api/tags does: fetch throws, the status is not OK, the body of
\* an OK response is no JSON, or it is a listing.
TagsOutcomes ==
  {[kind |-> "throws", models |-> <<>>],
   [kind |-> "non-ok", models |-> <<>>],
   [kind |-> "unparsable", models |-> <<>>]}
    \cup [kind : {"listing"},
          models : {<<>>, <<"llama3">>, <<"", "qwen2.5:0.5b-instruct">>,
                    <<"llama3", "qwen2.5:0.5b-instruct", "llama3">>,
                    <<"Qwen2.5:0.5B-Instruct">>}]

\* What GET /api/ps does; size_vram of an entry without one is 0.
PsOutcomes ==
  {[kind |-> "throws", size_vram |-> <<>>],
   [kind |-> "non-ok", size_vram |-> <<>>],
   [kind |-> "unparsable", size_vram |-> <<>>]}
    \cup [kind : {"body"}, size_vram : {<<>>, <<0>>, <<0, 4096>>}]

NoOutcome == [kind |-> "none"]

\* gpuLikely after the probe of the running processes
GpuLikely(outcome) ==
  IF outcome.kind # "body" THEN "undefined"
  ELSE IF \E i \in 1..Len(outcome.size_vram) : outcome.size_vram[i] > 0 THEN "true"
  ELSE "false"

\* The object getAutocompleteHealth returns.
HealthOf(ok, reason, gpuLikely) ==
  [ok |-> ok, reason |-> reason, gpuLikely |-> gpuLikely,
   requestCount |-> runtimeStats.requestCount,
   timeoutCount |-> runtimeStats.timeoutCount,
   medianLatencyMs |-> median(runtimeStats.latencies),
   lastLatencyMs |-> runtimeStats.lastLatencyMs]

\* The result after the response to GET /api/tags, or that the second probe
\* is made.
AfterTags(config, outcome) ==
  IF outcome.kind \in {"throws", "unparsable"}
    THEN [pc |-> "returned", result |-> HealthOf(FALSE, "Ollama unavailable", "undefined")]
  ELSE IF outcome.kind = "non-ok"
    THEN [pc |-> "returned", result |-> HealthOf(FALSE, "Ollama responded with HTTP", "undefined")]
  ELSE IF ~ModelListed(config, outcome)
    THEN [pc |-> "returned", result |-> HealthOf(FALSE, "Model not found", "undefined")]
  ELSE [pc |-> "ps", result |-> call.result]

Probing == call.fn = "getAutocompleteHealth"

\* getAutocompleteHealth up to its first await, or to its return when
\* autocomplete is disabled.
GetHealth ==
  /\ Probing
  /\ call.pc = "idle"
  /\ call' = IF ~getAutocompleteConfig.enabled
               THEN [call EXCEPT !.pc = "returned", !.config = getAutocompleteConfig,
                                 !.result = HealthOf(FALSE, "Autocomplete disabled in settings",
                                                     "undefined")]
             ELSE [call EXCEPT !.pc = "tags", !.config = getAutocompleteConfig]
  /\ UNCHANGED <<mainVars, uiVars>>

\* The probe of the listing ends.
TagsResponds(outcome) ==
  /\ Probing
  /\ call.pc = "tags"
  /\ call' = [call EXCEPT !.tags = outcome,
                          !.pc = AfterTags(call.config, outcome).pc,
                          !.result = AfterTags(call.config, outcome).result]
  /\ UNCHANGED <<mainVars, uiVars>>

\* The probe of the running processes ends, and the function returns.
PsResponds(outcome) ==
  /\ Probing
  /\ call.pc = "ps"
  /\ call' = [call EXCEPT !.ps = outcome, !.pc = "returned",
                          !.result = HealthOf(TRUE, "", GpuLikely(outcome))]
  /\ UNCHANGED <<mainVars, uiVars>>

\* suggestAutocomplete returns early, without a request to Ollama: it counts
\* the request and pushes the latency it measured.
EarlyReturn(latencyMs) ==
  /\ Probing
  /\ call.pushes < MaxPushes
  /\ runtimeStats' = pushLatency([runtimeStats EXCEPT !.requestCount = @ + 1], latencyMs)
  /\ call' = [call EXCEPT !.pushes = @ + 1, !.samples = Append(@, latencyMs)]
  /\ UNCHANGED <<runtimeSettings, requests, autocompleteControllers, uiVars>>

\* The latencies of the requests made before: none, or enough to fill the
\* window nearly or wholly.
EarlierLatencies ==
  {[i \in 1..n |-> 100 + ((i * 7) % 13)] :
     n \in {0, 1, LATENCY_WINDOW_SIZE - 2, LATENCY_WINDOW_SIZE - 1, LATENCY_WINDOW_SIZE}}

HealthSettings ==
  [enabled : BOOLEAN, mode : {"word"}, firstTokenTimeoutMs : {5000},
   model : {"qwen2.5:0.5b-instruct"}]

InitHealth ==
  /\ runtimeSettings \in HealthSettings
  /\ \E earlier \in EarlierLatencies :
        /\ runtimeStats = [requestCount |-> Len(earlier), timeoutCount |-> 0,
                           latencies |-> earlier,
                           lastLatencyMs |-> IF earlier = <<>> THEN NoLatency
                                             ELSE earlier[Len(earlier)],
                           recorded |-> Len(earlier)]
        /\ call = [fn |-> "getAutocompleteHealth", pc |-> "idle",
                   config |-> [enabled |-> FALSE, model |-> ""],
                   tags |-> NoOutcome, ps |-> NoOutcome,
                   result |-> [ok |-> FALSE, reason |-> "", gpuLikely |-> "undefined",
                               requestCount |-> 0, timeoutCount |-> 0,
                               medianLatencyMs |-> NoLatency, lastLatencyMs |-> NoLatency],
                   pushes |-> 0, samples |-> earlier]
  /\ requests = [r \in RequestIds |-> IdleRequest]
  /\ autocompleteControllers = [s \in Senders |-> NoController]
  /\ InitRenderer

NextHealth ==
  \/ GetHealth
  \/ \E outcome \in TagsOutcomes : TagsResponds(outcome)
  \/ \E outcome \in PsOutcomes : PsResponds(outcome)
  \/ \E latencyMs \in {0, 1} : EarlyReturn(latencyMs)

SpecHealth == InitHealth /\ [][NextHealth]_vars

\* The result that is being returned in this step carries the telemetry.
CarriesTelemetry(result, stats) ==
  /\ result.requestCount = stats.requestCount
  /\ result.timeoutCount = stats.timeoutCount
  /\ result.lastLatencyMs = stats.lastLatencyMs
  /\ result.medianLatencyMs = median(stats.latencies)
  /\ stats.latencies # <<>> =>
       /\ 2 * Cardinality({i \in 1..Len(stats.latencies) :
                             stats.latencies[i] < result.medianLatencyMs})
            <= Len(stats.latencies)
       /\ 2 * Cardinality({i \in 1..Len(stats.latencies) :
                             stats.latencies[i] > result.medianLatencyMs})
            <= Len(stats.latencies)

\* C31: getAutocompleteHealth reports ok = true exactly when autocomplete is
\* enabled, the probe of the listing succeeds with an OK status and the
\* configured model is in the listing; a failing or non-OK probe of the
\* running processes does not turn ok to false, gpuLikely is left out; and
\* every result carries requestCount, timeoutCount, the median latency and
\* the last latency.
C31_HealthOkAndTelemetry ==
  /\ []((Probing /\ call.pc = "returned") =>
          /\ call.result.ok <=>
               /\ call.config.enabled
               /\ call.tags.kind = "listing"
               /\ \E i \in 1..Len(call.tags.models) : call.tags.models[i] = call.config.model
          /\ call.ps.kind \in {"throws", "non-ok", "unparsable"} =>
               call.result.ok /\ call.result.gpuLikely = "undefined")
  /\ [][(Probing /\ call.pc # "returned" /\ call'.pc = "returned")
          => CarriesTelemetry(call'.result, runtimeStats')]_vars

\* The model is listed, the second probe fails, and the window was full and
\* two more latencies were pushed before the result: ok with the telemetry.
C31_Witness ==
  /\ Probing
  /\ call.pc = "returned"
  /\ call.result.ok
  /\ call.ps.kind = "throws"
  /\ call.pushes = 2
  /\ call.result.requestCount = LATENCY_WINDOW_SIZE + 2
  /\ call.result.lastLatencyMs = 1

\* The last n of the samples, in the order of their arrival.
MostRecent(samples, n) == SubSeq(samples, Len(samples) - n + 1, Len(samples))

\* C32: after any number of requests the latency window holds at most 60
\* samples, the most recent ones in the order of their arrival, and
\* lastLatencyMs is the newest sample of the window when the window is not
\* empty.
C32_LatencyWindow ==
  Probing =>
    /\ Len(runtimeStats.latencies) <= LATENCY_WINDOW_SIZE
    /\ runtimeStats.latencies
         = MostRecent(call.samples, Min(Len(call.samples), LATENCY_WINDOW_SIZE))
    /\ runtimeStats.latencies # <<>> =>
         runtimeStats.lastLatencyMs = runtimeStats.latencies[Len(runtimeStats.latencies)]

\* More samples than the window holds: the oldest are gone, the newest is last.
C32_Witness ==
  /\ Probing
  /\ Len(call.samples) = LATENCY_WINDOW_SIZE + 2
  /\ Len(runtimeStats.latencies) = LATENCY_WINDOW_SIZE
  /\ runtimeStats.latencies[1] = call.samples[3]
  /\ runtimeStats.latencies[1] # call.samples[1]
  /\ runtimeStats.lastLatencyMs = 0

\* Every update and reset handler that was started has completed.
HandlersCompleted ==
  /\ Persisting
  /\ ~call.crashed
  /\ call.started > 0
  /\ \A h \in Handlers : call.handlers[h].pc = "idle"

\* C33: after every update and reset handler has completed, handlers whose
\* persistence steps overlapped included, loading the persisted settings file
\* yields the in-memory settings of the main process.
C33_FileMatchesMemory ==
  HandlersCompleted => loadAutocompleteSettings(FileAtSettingsPath) = runtimeSettings

\* ---------------------------------------------------------------------------
\* Crop geometry (cropMath).  Coordinates are fractions of the image, modelled
\* in thousandths; a number is a record whose kind tells a finite value from
\* NaN and the two infinities.
\* ---------------------------------------------------------------------------

CropUnit == 1000

MIN_CROP_SIZE == 2

Finite(v) == [kind |-> "finite", v |-> v]

NaN == [kind |-> "NaN", v |-> 0]

Infinity == [kind |-> "Infinity", v |-> 0]

NegInfinity == [kind |-> "-Infinity", v |-> 0]

NumberIsFinite(a) == a.kind = "finite"

Negated(a) ==
  CASE a.kind = "finite" -> Finite(-a.v)
    [] a.kind = "Infinity" -> NegInfinity
    [] a.kind = "-Infinity" -> Infinity
    [] OTHER -> NaN

Plus(a, b) ==
  CASE a.kind = "NaN" \/ b.kind = "NaN" -> NaN
    [] a.kind = "finite" /\ b.kind = "finite" -> Finite(a.v + b.v)
    [] a.kind = "finite" -> b
    [] b.kind = "finite" -> a
    [] a.kind = b.kind -> a
    [] OTHER -> NaN

Minus(a, b) == Plus(a, Negated(b))

\* a < b of JavaScript: false when either side is NaN.
LessThan(a, b) ==
  CASE a.kind = "NaN" \/ b.kind = "NaN" -> FALSE
    [] a.kind = "finite" /\ b.kind = "finite" -> a.v < b.v
    [] a.kind = b.kind -> FALSE
    [] OTHER -> a.kind = "-Infinity" \/ b.kind = "Infinity"

MathMin(a, b) ==
  IF a.kind = "NaN" \/ b.kind = "NaN" THEN NaN
  ELSE IF LessThan(b, a) THEN b ELSE a

MathMax(a, b) ==
  IF a.kind = "NaN" \/ b.kind = "NaN" THEN NaN
  ELSE IF LessThan(a, b) THEN b ELSE a

MathAbs(a) ==
  CASE a.kind = "finite" -> Finite(IF a.v < 0 THEN -a.v ELSE a.v)
    [] a.kind = "NaN" -> NaN
    [] OTHER -> Infinity

clamp(value, min, max) ==
  IF ~NumberIsFinite(value) THEN min
  ELSE MathMax(min, MathMin(max, value))

CropRect(x, y, w, h) == [x |-> x, y |-> y, w |-> w, h |-> h]

ClampCropAxis(x, w) ==
  LET cx == clamp(x, Finite(0), Finite(CropUnit))
  IN  <<cx, clamp(w, Finite(MIN_CROP_SIZE), Minus(Finite(CropUnit), cx))>>

clampCropRect(crop) ==
  LET horizontal == ClampCropAxis(crop.x, crop.w)
      vertical == ClampCropAxis(crop.y, crop.h)
  IN  CropRect(horizontal[1], vertical[1], horizontal[2], vertical[2])

normalizeRectFromDrag(startX, startY, endX, endY) ==
  clampCropRect(CropRect(MathMin(startX, endX), MathMin(startY, endY),
                         MathAbs(Minus(endX, startX)), MathAbs(Minus(endY, startY))))

moveCropByDelta(crop, dx, dy) ==
  CropRect(clamp(Plus(crop.x, dx), Finite(0), Minus(Finite(CropUnit), crop.w)),
           clamp(Plus(crop.y, dy), Finite(0), Minus(Finite(CropUnit), crop.h)),
           crop.w, crop.h)

\* One axis of resizeCropByDelta: far is the handle letter of the edge that
\* grows the size (e or s), near the letter of the edge that moves the
\* origin (w or n).
ResizeCropAxis(x, w, d, far, near) ==
  LET w1 == IF far THEN clamp(Plus(w, d), Finite(MIN_CROP_SIZE), Minus(Finite(CropUnit), x))
            ELSE w
      nextX == clamp(Plus(x, d), Finite(0), Minus(Plus(x, w), Finite(MIN_CROP_SIZE)))
      x2 == IF near THEN nextX ELSE x
      w2 == IF near THEN clamp(Minus(w, Minus(nextX, x)), Finite(MIN_CROP_SIZE), Finite(CropUnit))
            ELSE w1
      w3 == IF LessThan(Finite(CropUnit), Plus(x2, w2)) THEN Minus(Finite(CropUnit), x2) ELSE w2
  IN  <<x2, w3>>

ResizeHandles == {"n", "s", "e", "w", "ne", "nw", "se", "sw"}

HandleIncludes(handle, letter) == \E i \in 1..Len(handle) : SubSeq(handle, i, i) = letter

resizeCropByDelta(crop, handle, dx, dy) ==
  LET horizontal == ResizeCropAxis(crop.x, crop.w, dx, HandleIncludes(handle, "e"), HandleIncludes(handle, "w"))
      vertical == ResizeCropAxis(crop.y, crop.h, dy, HandleIncludes(handle, "s"), HandleIncludes(handle, "n"))
  IN  clampCropRect(CropRect(horizontal[1], vertical[1], horizontal[2], vertical[2]))

\* Pointer coordinates and sizes handed to the crop functions.
CropNumbers ==
  {NaN, Infinity, NegInfinity} \cup
  {Finite(v) : v \in {-200, 0, 1, 500, CropUnit - 1, CropUnit, 1200}}

CropDeltas == {NaN, Finite(-500), Finite(-1), Finite(1), Finite(500)}

\* The crops an item can hold: what a drag between two pointer positions
\* inside the image leaves.
PointerPositions == {Finite(v) : v \in {0, 300, CropUnit - 1, CropUnit}}

HeldCrops ==
  {normalizeRectFromDrag(sx, sy, ex, ey) :
     sx \in PointerPositions, sy \in PointerPositions,
     ex \in PointerPositions, ey \in PointerPositions}

CropCalls ==
  [fn : {"clampCropRect"}, crop : [x : CropNumbers, y : CropNumbers, w : CropNumbers, h : CropNumbers],
   done : {FALSE}]
  \cup [fn : {"normalizeRectFromDrag"}, startX : CropNumbers, startY : CropNumbers,
        endX : CropNumbers, endY : CropNumbers, done : {FALSE}]
  \cup [fn : {"moveCropByDelta"}, crop : HeldCrops, dx : CropDeltas, dy : CropDeltas, done : {FALSE}]
  \cup [fn : {"resizeCropByDelta"}, crop : HeldCrops, handle : ResizeHandles,
        dx : CropDeltas, dy : CropDeltas, done : {FALSE}]

CropReturns(fn, result) ==
  /\ call.fn = fn
  /\ ~call.done
  /\ call' = [fn |-> fn, args |-> call, result |-> result, done |-> TRUE]
  /\ UNCHANGED <<mainVars, uiVars>>

CallClampCropRect ==
  call.fn = "clampCropRect" /\ CropReturns("clampCropRect", clampCropRect(call.crop))

CallNormalizeRectFromDrag ==
  /\ call.fn = "normalizeRectFromDrag"
  /\ CropReturns("normalizeRectFromDrag",
                 normalizeRectFromDrag(call.startX, call.startY, call.endX, call.endY))

CallMoveCropByDelta ==
  /\ call.fn = "moveCropByDelta"
  /\ CropReturns("moveCropByDelta", moveCropByDelta(call.crop, call.dx, call.dy))

CallResizeCropByDelta ==
  /\ call.fn = "resizeCropByDelta"
  /\ CropReturns("resizeCropByDelta",
                 resizeCropByDelta(call.crop, call.handle, call.dx, call.dy))

InitCrop ==
  /\ InitIdle
  /\ call \in CropCalls

NextCrop ==
  \/ CallClampCropRect
  \/ CallNormalizeRectFromDrag
  \/ CallMoveCropByDelta
  \/ CallResizeCropByDelta

SpecCrop == InitCrop /\ [][NextCrop]_vars

InsideUnitSquare(crop) ==
  /\ \A field \in {"x", "y", "w", "h"} : NumberIsFinite(crop[field])
  /\ 0 <= crop.x.v
  /\ 0 <= crop.y.v
  /\ crop.w.v >= MIN_CROP_SIZE
  /\ crop.h.v >= MIN_CROP_SIZE
  /\ crop.x.v + crop.w.v <= CropUnit
  /\ crop.y.v + crop.h.v <= CropUnit

CropReturned == call.fn \in {"clampCropRect", "normalizeRectFromDrag", "moveCropByDelta", "resizeCropByDelta"} /\ call.done

\* C34: the rectangle returned by clampCropRect, normalizeRectFromDrag,
\* moveCropByDelta and resizeCropByDelta lies inside the unit square and is at
\* least the minimum crop size wide and high, also for an origin within the
\* minimum crop size of the right or bottom edge.
C34_CropInsideUnitSquare ==
  CropReturned => InsideUnitSquare(call.result)

\* The requests a sender has sent so far.
RequestsOf(sender) ==
  {r \in RequestIds : requests[r].pc # "idle" /\ requests[r].sender = sender}

LatestRequestOf(sender) ==
  CHOOSE r \in RequestsOf(sender) : \A other \in RequestsOf(sender) : other <= r

\* C35: the registry holds for a sender nothing but the controller of the
\* sender's most recent suggest request, and holds it as long as that request
\* runs; a superseded request that returns later leaves the entry of the
\* newer request in place; once every request of a sender has returned the
\* sender has no entry.
C35_RegistryHoldsLatest ==
  /\ [](\A s \in Senders :
          /\ autocompleteControllers[s] # NoController =>
               RequestsOf(s) # {} /\ autocompleteControllers[s] = LatestRequestOf(s)
          /\ (RequestsOf(s) # {} /\ requests[LatestRequestOf(s)].pc # "done") =>
               autocompleteControllers[s] = LatestRequestOf(s)
          /\ (\A r \in RequestsOf(s) : requests[r].pc = "done") =>
               autocompleteControllers[s] = NoController)
  /\ [][\A r \in RequestIds :
          (Returns(r) /\ requests[r].pc # "idle"
             /\ autocompleteControllers[requests[r].sender] # r) =>
            autocompleteControllers'[requests[r].sender] = autocompleteControllers[requests[r].sender]]_vars

\* A request superseded by a newer one of its sender has returned while the
\* newer one runs and holds the sender's entry.
C35_Witness ==
  \E r \in RequestIds, n \in RequestIds :
     /\ r < n
     /\ requests[r].pc = "done" /\ requests[r].cause = "external"
     /\ InFlight(n) /\ requests[n].sender = requests[r].sender
     /\ autocompleteControllers[requests[n].sender] = n

SpecDebounce ==
  /\ InitWithRenderer
  /\ [][NextRenderer]_vars
  /\ WF_vars(AutocompleteTimerFires)
  /\ WF_vars(\E q \in pendingSuggests, response \in SuggestResponses : SuggestResolves(q, response))

\* The request the debounce timer issues when it fires.
RequestOfTimer(timer) ==
  [index |-> timer.index, text |-> timer.text, cursorIndex |-> timer.cursorIndex,
   version |-> timer.version]

\* The debounce timer of the event that made the version v is pending.
DebouncePending(v) == autocompleteTimerRef.armed /\ autocompleteTimerRef.version = v

\* The remote requests issued in this step.
IssuedNow == pendingSuggests' \ pendingSuggests

\* C37: with autocomplete enabled and the health status ok, a caret-only
\* text change arms the debounce timer with its text and cursor; unless a
\* later event makes a newer version, the timer eventually fires and issues
\* exactly one remote request, which carries that text and cursor; a step
\* issues at most one request, always that of the pending timer and of the
\* current version, so that an event superseded before its timer fired issues
\* none.
C37_LastEventIssuesOneRequest ==
  /\ \A v \in 1..MaxVersion :
        DebouncePending(v) ~>
          \/ \E q \in pendingSuggests : q.version = v
          \/ autocompleteRequestVersionRef > v
  /\ [][/\ \A j \in ItemIds :
             (CaretTextChangeIn(j) /\ autocompleteSettings.enabled /\ autocompleteHealth.ok) =>
               /\ autocompleteRequestVersionRef' > autocompleteRequestVersionRef
               /\ autocompleteTimerRef'.armed
               /\ autocompleteTimerRef'.version = autocompleteRequestVersionRef'
               /\ autocompleteTimerRef'.index = j
               /\ autocompleteTimerRef'.text = items'[j].currentText
               /\ autocompleteTimerRef'.cursorIndex = Len(items'[j].currentText)
        /\ IssuedNow # {} =>
               /\ autocompleteTimerRef.armed
               /\ IssuedNow = {RequestOfTimer(autocompleteTimerRef)}
               /\ autocompleteTimerRef.version = autocompleteRequestVersionRef
               /\ ~autocompleteTimerRef'.armed]_vars

\* The request of the second event is awaited, none of the first was issued.
C37_Witness ==
  /\ autocompleteRequestVersionRef = 2
  /\ ~autocompleteTimerRef.armed
  /\ \E q \in pendingSuggests :
        /\ pendingSuggests = {q}
        /\ q.version = 2
        /\ items[q.index].currentText = q.text
        /\ q.cursorIndex = Len(q.text)

\* C38: for every text and cursor index, extractPartial of the renderer and
\* extractWordContext of the main process return the same partialWord, the
\* same rightWordRemainder and the same previousWord.
C38_ExtractorsAgree ==
  (call.fn = "extractPartial" /\ call.returned) =>
    LET context == extractWordContext(call.text, CursorNumber(call.text, call.cursorIndex))
    IN  /\ call.result.partialWord = context.partialWord
        /\ call.result.rightWordRemainder = context.rightWordRemainder
        /\ call.result.previousWord = context.previousWord

\* The request n starts in this step while autocomplete is disabled, or in
\* word mode with no partial word at the cursor.
StartsWithoutWork(n) ==
  /\ Starts(n)
  /\ \/ ~runtimeSettings.enabled
     \/ runtimeSettings.mode = "word" /\ requests'[n].context.partialWord = ""

\* C39: when autocomplete is disabled, or in word mode when the partial word
\* at the cursor is empty, suggestAutocomplete returns an empty completion in
\* the step that calls it: it never waits for a fetch, and neither the
\* first-token timer nor the overall timer is armed; such a request is never
\* seen with a network call or a timer later either.
C39_EarlyReturnDoesNothing ==
  /\ [][\A n \in RequestIds :
          StartsWithoutWork(n) =>
            /\ requests'[n].pc = "done"
            /\ requests'[n].response.present
            /\ requests'[n].response.completion = ""
            /\ ~requests'[n].response.timedOut
            /\ ~requests'[n].firstTokenTimeout
            /\ ~requests'[n].overallTimeout
            /\ requests'[n].reads = 0]_vars
  /\ [](\A n \in RequestIds :
          requests[n].cause \in {"disabled", "no-partial"} =>
            /\ requests[n].pc = "done"
            /\ ~TimerArmed(n)
            /\ requests[n].response.completion = "")

\* A request has returned early for want of a partial word while autocomplete
\* is enabled.
C39_Witness ==
  \E n \in RequestIds :
     /\ requests[n].pc = "done"
     /\ requests[n].cause = "no-partial"
     /\ runtimeSettings.enabled
     /\ ~TimerArmed(n)

\* ---------------------------------------------------------------------------
\* The main process under first-token timeouts from both ends of the valid
\* range, at the value from which the overall timeout leaves its floor, and
\* at the default.
\* ---------------------------------------------------------------------------
FirstTokenTimeoutRange == 200..20000

FirstTokenTimeouts == {200, 1000, 5000, 20000}

InitTimeouts ==
  /\ runtimeSettings \in [enabled : {TRUE}, mode : {"word", "phrase"},
                          firstTokenTimeoutMs : FirstTokenTimeouts]
  /\ runtimeStats = [requestCount |-> 0, timeoutCount |-> 0, latencies |-> <<>>,
                     lastLatencyMs |-> NoLatency, recorded |-> 0]
  /\ requests = [r \in RequestIds |-> IdleRequest]
  /\ autocompleteControllers = [s \in Senders |-> NoController]
  /\ InitRenderer
  /\ call = NoCall

SpecTimeouts == InitTimeouts /\ [][Next]_vars

\* C40: for every firstTokenTimeoutMs from 200 to 20000 the overall timeout
\* max(6000, firstTokenTimeoutMs + 5000) is greater than the first-token
\* timeout; the timers of a request are armed with such a pair; a request
\* that has received no chunk never waits until its overall timeout, and the
\* overall timer fires only for, and ends only, requests that have received
\* a chunk.
C40_FirstTokenTimerComesFirst ==
  /\ [](/\ runtimeStats.requestCount = 0 =>
             \A firstTokenTimeoutMs \in FirstTokenTimeoutRange :
                overallTimeoutMs(firstTokenTimeoutMs) > firstTokenTimeoutMs
        /\ \A r \in RequestIds :
             /\ requests[r].overallTimeout =>
                  /\ requests[r].firstTokenTimeoutMs \in FirstTokenTimeoutRange
                  /\ requests[r].overallTimeoutMs > requests[r].firstTokenTimeoutMs
             /\ (InFlight(r) /\ ~requests[r].firstTokenSeen /\ ~requests[r].aborted) =>
                  requests[r].elapsedMs < requests[r].overallTimeoutMs
             /\ requests[r].cause = "overall-timeout" => requests[r].firstTokenSeen
             /\ requests[r].firstTokenTimedOut => ~requests[r].firstTokenSeen)
  /\ [][\A r \in RequestIds : OverallFired(r) => requests[r].firstTokenSeen]_vars

\* With the shortest first-token timeout one request was ended by the
\* first-token timer before any chunk, another by the overall timer after a
\* chunk.
C40_Witness ==
  \E p, r \in RequestIds :
     /\ requests[r].cause = "first-token-timeout" /\ ~requests[r].firstTokenSeen
     /\ requests[p].cause = "overall-timeout" /\ requests[p].firstTokenSeen
     /\ runtimeSettings.firstTokenTimeoutMs \in {200, 20000}

====
